---- MODULE Spec2Model ----
(***************************************************************************)
(* Model of the document validation engine of src/utils/validator.py, and   *)
(* of the wizard of src/app.py that runs it and saves its report.          *)
(*                                                                         *)
(* Python strings are TLA+ strings (sequences of characters): a character  *)
(* of s is SubSeq(s, i, i).  A Python dict that preserves insertion order  *)
(* (processed_docs) is a sequence of [type, doc] entries with distinct     *)
(* types.  A value of a dict that may be missing or None is an optional:   *)
(* Absent (the key is not there), None (the key holds None) or Val(v).     *)
(* The human-readable 'description' of an issue is not modelled.           *)
(***************************************************************************)
EXTENDS Integers, Sequences, FiniteSets, TLC

VARIABLES
    personal_data,     \* the claimed personal facts (argument of the call)
    academic_data,     \* the claimed academic facts (argument of the call)
    processed_docs,    \* the document map, in insertion order
    now,               \* the date datetime.now() falls on during the call
    called,            \* which function has been called, "none" before the call
    result,            \* what the call returned, or Raised
    session_state,     \* st.session_state: step, personal_data, academic_data,
                       \* documents, validation_results
    records            \* the rows of validation_records, oldest first

vars ==
    <<personal_data, academic_data, processed_docs, now, called, result,
      session_state, records>>

----------------------------------------------------------------------------
(* Optional values and exceptions *)

Absent == [k |-> "absent"]
None == [k |-> "none"]
Val(v) == [k |-> "val", v |-> v]

\* dict.get(key, default): the default replaces a missing key only, a key
\* that holds None yields None.
Get(opt, default) == IF opt.k = "absent" THEN Val(default) ELSE opt

IsNone(opt) == opt.k = "none"

\* The outcome of a call that ends in an uncaught exception.
Raised == [raised |-> TRUE]

NoResult == [raised |-> FALSE, pending |-> TRUE]

----------------------------------------------------------------------------
(* Strings *)

\* s[i-1:i]: the character at position i, "" outside the string
Ch(s, i) == IF i \in 1..Len(s) THEN SubSeq(s, i, i) ELSE ""

Digits == "0123456789"

\* The set of the characters of a string
CharsOf(chars) == {Ch(chars, i) : i \in 1..Len(chars)}

UpperSet == CharsOf("ABCDEFGHIJKLMNOPQRSTUVWXYZ")
LowerSet == CharsOf("abcdefghijklmnopqrstuvwxyz")
DigitSet == CharsOf(Digits)
\* \s of the re module and the separators of str.split() and str.strip()
SpaceSet == CharsOf(" \n\t")

\* c is one of the characters of the string chars
OneOf(c, chars) == c \in CharsOf(chars)

IsLetter(c) == c \in UpperSet \/ c \in LowerSet
IsDigit(c) == c \in DigitSet
IsSpace(c) == c \in SpaceSet

\* The lowercase letter of each uppercase letter
LowerOf ==
    [c \in UpperSet |->
        Ch("abcdefghijklmnopqrstuvwxyz",
           CHOOSE i \in 1..26 : Ch("ABCDEFGHIJKLMNOPQRSTUVWXYZ", i) = c)]

LowerCh(c) == IF c \in UpperSet THEN LowerOf[c] ELSE c

RECURSIVE Lower(_)
\* str.lower()
Lower(s) == IF Len(s) = 0 THEN "" ELSE LowerCh(Head(s)) \o Lower(Tail(s))

\* Python's `sub in text`
Contains(sub, text) ==
    \/ Len(sub) = 0
    \/ \E i \in 1..(Len(text) - Len(sub) + 1) :
          SubSeq(text, i, i + Len(sub) - 1) = sub

RECURSIVE LStrip(_)
LStrip(s) == IF Len(s) > 0 /\ IsSpace(Head(s)) THEN LStrip(Tail(s)) ELSE s

RECURSIVE RStrip(_)
RStrip(s) ==
    IF Len(s) > 0 /\ IsSpace(Ch(s, Len(s)))
    THEN RStrip(SubSeq(s, 1, Len(s) - 1))
    ELSE s

\* str.strip()
Strip(s) == RStrip(LStrip(s))

RECURSIVE SplitOn(_, _, _)
\* The pieces of s between the characters of seps, empty pieces included
\* (re.split(r'[,\n]', s)); cur is the piece being read.
SplitOn(s, seps, cur) ==
    IF Len(s) = 0 THEN <<cur>>
    ELSE IF OneOf(Head(s), seps)
         THEN <<cur>> \o SplitOn(Tail(s), seps, "")
         ELSE SplitOn(Tail(s), seps, cur \o Head(s))

\* str.split(): the maximal runs of non-whitespace characters
SplitWhitespace(s) ==
    SelectSeq(SplitOn(s, " \n\t", ""), LAMBDA p : Len(p) > 0)

----------------------------------------------------------------------------
(* Issues and the status of a category *)

Issue(type, document, severity) ==
    [type |-> type, document |-> document, documents |-> <<>>,
     severity |-> severity]

\* An issue that names no document (the 'document' key is not set).
ClaimIssue(type, severity) == Issue(type, "", severity)

CountSeverity(issues, severity) ==
    Cardinality({i \in 1..Len(issues) : issues[i].severity = severity})

\* StatusOf with the warnings tested before the critical issues
StatusOfBroken(issues) ==
    IF CountSeverity(issues, "warning") > 0 THEN "Warning"
    ELSE IF CountSeverity(issues, "critical") > 0 THEN "Failed"
    ELSE "Passed"

\* "Set status based on issues": the tail of each of the four validators
StatusOf(issues) ==
    IF CountSeverity(issues, "critical") > 0 THEN "Failed"
    ELSE IF CountSeverity(issues, "warning") > 0 THEN "Warning"
    ELSE "Passed"

CategoryResult(issues) ==
    [raised |-> FALSE, issues |-> issues, status |-> StatusOf(issues)]

RECURSIVE Concat(_)
\* The concatenation of a sequence of issue lists: what a loop that appends
\* to validation_result['issues'] leaves behind, in iteration order.
Concat(lists) ==
    IF Len(lists) = 0 THEN <<>> ELSE Head(lists) \o Concat(Tail(lists))

TextOf(entry) == Get(entry.doc.text, "")

\* Some document's text is None: doc_data.get('text', '').lower() raises
\* AttributeError.
SomeTextIsNone(docs) == \E i \in 1..Len(docs) : IsNone(TextOf(docs[i]))

----------------------------------------------------------------------------
(* Dates: datetime.strptime and datetime.strftime *)

\* A date is <<year, month, day>>; NoDate is a failed parse (date_obj None).
NoDate == <<>>

AllDigits(s) == \A i \in 1..Len(s) : IsDigit(Ch(s, i))

RECURSIVE ToInt(_)
\* int(s) of a string of digits
ToInt(s) ==
    IF Len(s) = 0 THEN 0
    ELSE 10 * ToInt(SubSeq(s, 1, Len(s) - 1))
         + (CHOOSE n \in 0..9 : Ch(Digits, n + 1) = Ch(s, Len(s)))

\* '%02d' % n
Pad2(n) ==
    Ch(Digits, ((n \div 10) % 10) + 1) \o Ch(Digits, (n % 10) + 1)

DaysInMonth(y, m) ==
    IF m = 2
    THEN (IF (y % 4 = 0 /\ y % 100 # 0) \/ y % 400 = 0 THEN 29 ELSE 28)
    ELSE IF m \in {4, 6, 9, 11} THEN 30 ELSE 31

MonthNames ==
    <<"January", "February", "March", "April", "May", "June", "July",
      "August", "September", "October", "November", "December">>

\* The text a strptime directive accepts (_strptime's regular expressions):
\* %d is 3[0-1]|[1-2]\d|0[1-9]|[1-9]| [1-9], %m is 1[0-2]|0[1-9]|[1-9],
\* %Y is \d\d\d\d.
FieldMatches(directive, s) ==
    CASE directive = "d" ->
            \/ Len(s) = 2 /\ AllDigits(s) /\ ToInt(s) \in 1..31
            \/ Len(s) = 1 /\ AllDigits(s) /\ ToInt(s) \in 1..9
            \/ Len(s) = 2 /\ Ch(s, 1) = " " /\ IsDigit(Ch(s, 2))
                  /\ ToInt(Ch(s, 2)) \in 1..9
      [] directive = "m" ->
            \/ Len(s) = 2 /\ AllDigits(s) /\ ToInt(s) \in 1..12
            \/ Len(s) = 1 /\ AllDigits(s) /\ ToInt(s) \in 1..9
      [] directive = "Y" -> Len(s) = 4 /\ AllDigits(s)

\* Strptime with %Y also taking two digits, as %y does (years 2000 to 2099)
StrptimeShortYear(s, directives, sep) ==
    LET pieces == SplitOn(s, sep, "")
        piece(d) == pieces[CHOOSE i \in 1..3 : directives[i] = d]
        year == IF Len(piece("Y")) = 2 THEN 2000 + ToInt(piece("Y"))
                ELSE ToInt(piece("Y"))
        at(d) == ToInt(LStrip(piece(d)))
    IN  IF /\ Len(pieces) = 3
           /\ \A i \in 1..3 :
                  \/ FieldMatches(directives[i], pieces[i])
                  \/ /\ directives[i] = "Y"
                     /\ Len(pieces[i]) = 2
                     /\ AllDigits(pieces[i])
           /\ year >= 1
           /\ at("d") <= DaysInMonth(year, at("m"))
        THEN <<year, at("m"), at("d")>>
        ELSE NoDate

\* datetime.strptime(s, fmt) for a format of three directives joined by one
\* separator character, e.g. <<"d", "m", "Y">> and "/" for '%d/%m/%Y'.  The
\* whole string has to match, and the date has to exist; NoDate stands for
\* the ValueError.
Strptime(s, directives, sep) ==
    LET pieces == SplitOn(s, sep, "")
        at(d) == ToInt(LStrip(pieces[CHOOSE i \in 1..3 : directives[i] = d]))
    IN  IF /\ Len(pieces) = 3
           /\ \A i \in 1..3 : FieldMatches(directives[i], pieces[i])
           /\ at("Y") >= 1
           /\ at("d") <= DaysInMonth(at("Y"), at("m"))
        THEN <<at("Y"), at("m"), at("d")>>
        ELSE NoDate

\* date a is strictly later than date b
DateAfter(a, b) ==
    \/ a[1] > b[1]
    \/ a[1] = b[1] /\ a[2] > b[2]
    \/ a[1] = b[1] /\ a[2] = b[2] /\ a[3] > b[3]

\* The six renderings validate_personal_info searches for, in order:
\* %d/%m/%Y, %d-%m-%Y, %Y-%m-%d, %Y/%m/%d, '%d %B %Y', '%B %d, %Y'.
DobFormats(date) ==
    LET y == Pad2(date[1] \div 100) \o Pad2(date[1] % 100)
        m == Pad2(date[2])
        d == Pad2(date[3])
        B == MonthNames[date[2]]
    IN  << d \o "/" \o m \o "/" \o y,
           d \o "-" \o m \o "-" \o y,
           y \o "-" \o m \o "-" \o d,
           y \o "/" \o m \o "/" \o d,
           d \o " " \o B \o " " \o y,
           B \o " " \o d \o ", " \o y >>

----------------------------------------------------------------------------
(* validate_personal_info *)

\* name_matches of one document: the name parts longer than 2 characters
\* that occur in the text
NameMatches(name_parts, text) ==
    Cardinality({i \in 1..Len(name_parts) :
                    Len(name_parts[i]) > 2 /\ Contains(name_parts[i], text)})

\* name_matches >= len(name_parts) / 2
NameFound(name_parts, text) ==
    2 * NameMatches(name_parts, text) >= Len(name_parts)

\* NameIssues with the severity of university_mismatch
NameIssuesCritical(docs, pd) ==
    LET name_parts == SplitWhitespace(Lower(pd.name))
    IN  Concat([i \in 1..Len(docs) |->
            IF NameFound(name_parts, Lower(TextOf(docs[i]).v))
            THEN <<>>
            ELSE <<Issue("name_mismatch", docs[i].type, "critical")>>])

NameIssues(docs, pd) ==
    LET name_parts == SplitWhitespace(Lower(pd.name))
    IN  Concat([i \in 1..Len(docs) |->
            IF NameFound(name_parts, Lower(TextOf(docs[i]).v))
            THEN <<>>
            ELSE <<Issue("name_mismatch", docs[i].type, "warning")>>])

\* dob_obj: '%Y-%m-%d' is tried first, then '%d/%m/%Y'
ParseDob(dob) ==
    LET iso == Strptime(dob, <<"Y", "m", "d">>, "-")
    IN  IF iso # NoDate THEN iso ELSE Strptime(dob, <<"d", "m", "Y">>, "/")

\* DobIssues with the search made in lower case, as the other fields'
DobIssuesAnyCase(docs, pd) ==
    LET dob_obj == ParseDob(pd.dob)
        dob_formats == DobFormats(dob_obj)
        dob_found ==
            \E i \in 1..Len(docs) : \E f \in 1..Len(dob_formats) :
                Contains(Lower(dob_formats[f]), Lower(TextOf(docs[i]).v))
    IN  IF pd.dob = "" \/ dob_obj = NoDate \/ dob_found
        THEN <<>>
        ELSE <<ClaimIssue("dob_mismatch", "warning")>>

DobIssues(docs, pd) ==
    LET dob_obj == ParseDob(pd.dob)
        dob_formats == DobFormats(dob_obj)
        dob_found ==
            \E i \in 1..Len(docs) : \E f \in 1..Len(dob_formats) :
                Contains(dob_formats[f], TextOf(docs[i]).v)
    IN  IF pd.dob = "" \/ dob_obj = NoDate \/ dob_found
        THEN <<>>
        ELSE <<ClaimIssue("dob_mismatch", "warning")>>

\* AddressFound with the parts of 3 characters or fewer left out of the
\* count of the parts
AddressFoundLongParts(field_value, text) ==
    LET address_parts == SplitOn(field_value, ",\n", "")
        long_parts ==
            {i \in 1..Len(address_parts) : Len(Strip(address_parts[i])) > 3}
        address_matches ==
            Cardinality({i \in long_parts :
                Contains(Strip(address_parts[i]), text)})
    IN  2 * address_matches >= Cardinality(long_parts)

\* The address test of one document: the comma- or newline-separated parts
\* longer than 3 characters that occur in the text, against half the parts.
AddressFound(field_value, text) ==
    LET address_parts == SplitOn(field_value, ",\n", "")
        address_matches ==
            Cardinality({i \in 1..Len(address_parts) :
                LET part == Strip(address_parts[i])
                IN  Len(part) > 3 /\ Contains(part, text)})
    IN  2 * address_matches >= Len(address_parts)

FieldIssues(docs, pd, field) ==
    LET field_value == Lower(pd[field])
        field_found ==
            \E i \in 1..Len(docs) :
                LET text == Lower(TextOf(docs[i]).v)
                IN  IF field = "address"
                    THEN AddressFound(field_value, text)
                    ELSE Contains(field_value, text)
    IN  IF pd[field] = "" \/ field_found
        THEN <<>>
        ELSE <<ClaimIssue(field \o "_mismatch", "warning")>>

\* The name loop lowercases the text of every document, so a text that is
\* None ends the call with AttributeError before any later check.
validate_personal_info(docs, pd) ==
    IF SomeTextIsNone(docs)
    THEN Raised
    ELSE CategoryResult(
            NameIssues(docs, pd) \o DobIssues(docs, pd)
            \o FieldIssues(docs, pd, "citizenship")
            \o FieldIssues(docs, pd, "address")
            \o FieldIssues(docs, pd, "gender"))

----------------------------------------------------------------------------
(* validate_academic_info *)

HasDoc(docs, type) == \E i \in 1..Len(docs) : docs[i].type = type

\* processed_docs[type]
DocOfType(docs, type) ==
    docs[CHOOSE i \in 1..Len(docs) : docs[i].type = type].doc

\* A loop over the documents that lowercases each text and leaves at the
\* first document whose text has what is looked for ("found", by break);
\* hits are the documents whose text has it.  A text that is None raises
\* when the loop gets to it ("raised"); "missing" when the loop ends without
\* a match.
ScanTexts(docs, hits) ==
    LET stops == {i \in 1..Len(docs) : IsNone(TextOf(docs[i])) \/ i \in hits}
        first == CHOOSE i \in stops : \A j \in stops : i <= j
    IN  IF stops = {} THEN "missing"
        ELSE IF IsNone(TextOf(docs[first])) THEN "raised"
        ELSE "found"

MajorScan(docs, major) ==
    ScanTexts(docs, {i \in 1..Len(docs) :
                        /\ ~IsNone(TextOf(docs[i]))
                        /\ Contains(major, Lower(TextOf(docs[i]).v))})

\* matches of one document: the university parts longer than 2 characters
\* that occur in the text
UniversityMatches(university_parts, text) ==
    Cardinality({i \in 1..Len(university_parts) :
        Len(university_parts[i]) > 2 /\ Contains(university_parts[i], text)})

\* UniversityInText without the partial match
UniversityInTextExactOnly(university, text) == Contains(university, text)

\* One document corroborates the university: the full name occurs in its
\* text, or matches >= len(university_parts) / 2.
UniversityInText(university, text) ==
    LET university_parts == SplitWhitespace(university)
    IN  \/ Contains(university, text)
        \/ 2 * UniversityMatches(university_parts, text)
              >= Len(university_parts)

UniversityScan(docs, university) ==
    ScanTexts(docs, {i \in 1..Len(docs) :
                        /\ ~IsNone(TextOf(docs[i]))
                        /\ UniversityInText(university,
                                            Lower(TextOf(docs[i]).v))})

\* degree_variants, in the order of the dict
DegreeKeys == <<"bachelor", "master", "doctorate", "associate">>

DegreeVariants(key) ==
    CASE key = "bachelor" ->
            <<"bachelor", "bachelor's", "bachelors", "b.a.", "b.s.", "b.sc",
              "bs", "ba">>
      [] key = "master" ->
            <<"master", "master's", "masters", "m.a.", "m.s.", "m.sc", "ms",
              "ma">>
      [] key = "doctorate" ->
            <<"doctorate", "doctoral", "ph.d.", "phd", "doctor of philosophy">>
      [] key = "associate" ->
            <<"associate", "a.a.", "a.s.", "associate's">>

\* applicable_variants: the variants of every key that occurs in the claimed
\* degree level
ApplicableVariants(degree_level) ==
    Concat([k \in 1..Len(DegreeKeys) |->
        IF Contains(DegreeKeys[k], degree_level)
        THEN DegreeVariants(DegreeKeys[k])
        ELSE <<>>])

\* DegreeFound that takes a level without variants for found
DegreeFoundByDefault(docs, degree_level) ==
    LET variants == ApplicableVariants(degree_level)
    IN  \/ variants = <<>>
        \/ \E i \in 1..Len(docs) : \E v \in 1..Len(variants) :
               Contains(variants[v], Lower(TextOf(docs[i]).v))

\* The degree loop has no break of the outer loop: it reads every document.
DegreeFound(docs, degree_level) ==
    LET variants == ApplicableVariants(degree_level)
    IN  \E i \in 1..Len(docs) : \E v \in 1..Len(variants) :
            Contains(variants[v], Lower(TextOf(docs[i]).v))

\* re.findall(r"(([A-D][+-]?|F)|pass|fail)", text, re.IGNORECASE) is not
\* empty: a match starts at a letter A-D or F of either case, or at the
\* word pass or fail.
HasGradeToken(text) ==
    \/ \E i \in 1..Len(text) : OneOf(LowerCh(Ch(text, i)), "abcdf")
    \/ Contains("pass", Lower(text))
    \/ Contains("fail", Lower(text))

\* doc_data.get('metadata', {}): the empty dict is the empty function
MetadataOf(doc) == Get(doc.metadata, <<>>)

\* metadata.get(key): the optional under the key, Absent when the metadata
\* is the default empty dict or lacks the key
MetaGet(metadata, key) ==
    IF key \in DOMAIN metadata.v THEN metadata.v[key] ELSE Absent

\* `not value` for an optional string
Falsy(opt) == opt.k # "val" \/ opt.v = ""

AcademicRaises(docs, ad) ==
    \/ ad.major # "" /\ MajorScan(docs, Lower(ad.major)) = "raised"
    \/ ad.university # ""
          /\ UniversityScan(docs, Lower(ad.university)) = "raised"
    \/ ad.degree_level # "" /\ SomeTextIsNone(docs)
    \/ ad.grade # "" /\ HasDoc(docs, "transcript")
          /\ IsNone(Get(DocOfType(docs, "transcript").text, ""))
    \/ ad.graduation_year # "" /\ HasDoc(docs, "student_record")
          /\ IsNone(MetadataOf(DocOfType(docs, "student_record")))
    \/ ad.graduation_season # "" /\ HasDoc(docs, "student_record")
          /\ LET metadata == MetadataOf(DocOfType(docs, "student_record"))
             IN  \/ IsNone(metadata)
                 \/ IsNone(Get(MetaGet(metadata, "graduation_season"), ""))

MajorIssues(docs, ad) ==
    IF ad.major # "" /\ MajorScan(docs, Lower(ad.major)) = "missing"
    THEN <<ClaimIssue("major_mismatch", "warning")>>
    ELSE <<>>

UniversityIssues(docs, ad) ==
    IF ad.university # ""
       /\ UniversityScan(docs, Lower(ad.university)) = "missing"
    THEN <<ClaimIssue("university_mismatch", "critical")>>
    ELSE <<>>

DegreeIssues(docs, ad) ==
    IF ad.degree_level # "" /\ ~DegreeFound(docs, Lower(ad.degree_level))
    THEN <<ClaimIssue("degree_level_mismatch", "warning")>>
    ELSE <<>>

\* GradeIssues that looks for the claimed grade in the transcript
GradeIssuesCompared(docs, ad) ==
    IF ad.grade # "" /\ HasDoc(docs, "transcript")
       /\ ~Contains(Lower(ad.grade),
                    Lower(Get(DocOfType(docs, "transcript").text, "").v))
    THEN <<ClaimIssue("grade_not_found", "warning")>>
    ELSE <<>>

GradeIssues(docs, ad) ==
    IF ad.grade # "" /\ HasDoc(docs, "transcript")
       /\ ~HasGradeToken(Lower(Get(DocOfType(docs, "transcript").text, "").v))
    THEN <<ClaimIssue("grade_not_found", "warning")>>
    ELSE <<>>

GraduationYearIssues(docs, ad) ==
    IF ad.graduation_year # "" /\ HasDoc(docs, "student_record")
    THEN LET record_graduation_year ==
                 MetaGet(MetadataOf(DocOfType(docs, "student_record")),
                         "graduation_year")
         IN  IF Falsy(record_graduation_year)
             THEN <<ClaimIssue("graduation_year_not_found", "warning")>>
             ELSE IF ad.graduation_year # record_graduation_year.v
             THEN <<ClaimIssue("graduation_year_mismatch", "warning")>>
             ELSE <<>>
    ELSE <<>>

GraduationSeasonIssues(docs, ad) ==
    IF ad.graduation_season # "" /\ HasDoc(docs, "student_record")
    THEN LET record_graduation_season ==
                 Lower(Get(MetaGet(MetadataOf(DocOfType(docs, "student_record")),
                                   "graduation_season"), "").v)
         IN  IF record_graduation_season = ""
             THEN <<ClaimIssue("graduation_season_not_found", "warning")>>
             ELSE IF Lower(ad.graduation_season) # record_graduation_season
             THEN <<ClaimIssue("graduation_season_mismatch", "warning")>>
             ELSE <<>>
    ELSE <<>>

validate_academic_info(docs, ad) ==
    IF AcademicRaises(docs, ad)
    THEN Raised
    ELSE CategoryResult(
            MajorIssues(docs, ad) \o UniversityIssues(docs, ad)
            \o DegreeIssues(docs, ad) \o GradeIssues(docs, ad)
            \o GraduationYearIssues(docs, ad)
            \o GraduationSeasonIssues(docs, ad))

----------------------------------------------------------------------------
(* validate_document_authenticity *)

\* metadata.get('format_markers', {})
FormatMarkersOf(metadata) == Get(MetaGet(metadata, "format_markers"), <<>>)

\* not format_markers.get(marker, False)
MarkerMissing(format_markers, marker) ==
    \/ marker \notin DOMAIN format_markers.v
    \/ ~format_markers.v[marker]

\* `not value` for an optional list and for an optional boolean
FalsyList(opt) == opt.k # "val" \/ Len(opt.v) = 0
FalsyFlag(opt) == opt.k # "val" \/ ~opt.v

\* metadata or format_markers is None: the .get on it raises AttributeError
\* (format_markers is read for has_date whatever the document type).
AuthenticityRaises(docs) ==
    \E i \in 1..Len(docs) :
        \/ IsNone(MetadataOf(docs[i].doc))
        \/ IsNone(FormatMarkersOf(MetadataOf(docs[i].doc)))

When(cond, issue) == IF cond THEN <<issue>> ELSE <<>>

\* DateIssue without the has_date check
DateIssueNever(doc_type, format_markers) == <<>>

\* "Check all documents for common authenticity markers"
DateIssue(doc_type, format_markers) ==
    When(MarkerMissing(format_markers, "has_date"),
         Issue("missing_date", doc_type, "warning"))

\* StudentIdIssues that takes an empty or None id_number for a number
StudentIdIssuesLenient(doc_type, metadata, format_markers) ==
    When(MarkerMissing(format_markers, "has_header"),
         Issue("missing_header", doc_type, "warning"))
    \o When(MetaGet(metadata, "id_number").k = "absent",
            Issue("missing_id_number", doc_type, "critical"))

StudentIdIssues(doc_type, metadata, format_markers) ==
    When(MarkerMissing(format_markers, "has_header"),
         Issue("missing_header", doc_type, "warning"))
    \o When(Falsy(MetaGet(metadata, "id_number")),
            Issue("missing_id_number", doc_type, "critical"))

TranscriptIssues(doc_type, metadata, format_markers) ==
    When(MarkerMissing(format_markers, "has_header"),
         Issue("missing_header", doc_type, "warning"))
    \o When(FalsyList(MetaGet(metadata, "courses")),
            Issue("missing_courses", doc_type, "critical"))
    \o When(FalsyList(MetaGet(metadata, "grades")),
            Issue("missing_grades", doc_type, "critical"))

StudentRecordIssues(doc_type, metadata, format_markers) ==
    When(MarkerMissing(format_markers, "has_letterhead"),
         Issue("missing_letterhead", doc_type, "warning"))
    \o When(Falsy(MetaGet(metadata, "status")),
            Issue("missing_status", doc_type, "warning"))

\* UnionLetterIssues with the signature read from the format markers
UnionLetterIssuesByMarkers(doc_type, metadata, format_markers) ==
    When(MarkerMissing(format_markers, "has_header"),
         Issue("missing_header", doc_type, "warning"))
    \o When(MarkerMissing(format_markers, "has_signature"),
            Issue("missing_signature", doc_type, "warning"))

\* The signature is read from the metadata, not from the format markers.
UnionLetterIssues(doc_type, metadata, format_markers) ==
    When(MarkerMissing(format_markers, "has_header"),
         Issue("missing_header", doc_type, "warning"))
    \o When(FalsyFlag(MetaGet(metadata, "has_signature")),
            Issue("missing_signature", doc_type, "warning"))

\* The body of the loop over the documents, for one document
AuthenticityIssuesOf(entry) ==
    LET doc_type == entry.type
        metadata == MetadataOf(entry.doc)
        format_markers == FormatMarkersOf(metadata)
    IN  (CASE doc_type = "student_id" ->
                StudentIdIssues(doc_type, metadata, format_markers)
           [] doc_type = "transcript" ->
                TranscriptIssues(doc_type, metadata, format_markers)
           [] doc_type = "student_record" ->
                StudentRecordIssues(doc_type, metadata, format_markers)
           [] doc_type = "union_letter" ->
                UnionLetterIssues(doc_type, metadata, format_markers)
           [] OTHER -> <<>>)
        \o DateIssue(doc_type, format_markers)

validate_document_authenticity(docs) ==
    IF AuthenticityRaises(docs)
    THEN Raised
    ELSE CategoryResult(
            Concat([i \in 1..Len(docs) |-> AuthenticityIssuesOf(docs[i])]))

----------------------------------------------------------------------------
(* Regular expressions of validate_cross_document_consistency *)

\* The character classes of the patterns: \d, \s, [A-Za-z], [A-Za-z\s],
\* [a-z]
InClass(c, class) ==
    CASE class = "digit" -> IsDigit(c)
      [] class = "space" -> IsSpace(c)
      [] class = "letter" -> IsLetter(c)
      [] class = "name" -> IsLetter(c) \/ IsSpace(c)
      [] class = "lower" -> c \in LowerSet

RECURSIVE RunLen(_, _, _)
\* The length of the longest run of characters of a class that starts at
\* position i of s (0 when there is none, or i is past the end): what a
\* greedy class* takes.
RunLen(s, i, class) ==
    IF i <= Len(s) /\ InClass(Ch(s, i), class)
    THEN 1 + RunLen(s, i + 1, class)
    ELSE 0

IsDateSep(c) == c \in {"/", "-"}

NoMatch == [found |-> FALSE]
Match(text) == [found |-> TRUE, text |-> text]

\* r"name\s*:\s*([A-Za-z\s]+)" with re.IGNORECASE, tried at position i:
\* group 1 as matched (before .strip()), or NoMatch.  With the colon at
\* position colon, run is the length of the run of letters and whitespace
\* after it and lead that of the whitespace the run starts with: whatever
\* \s* gives back to the group is whitespace, so the group is the run less
\* the whitespace \s* keeps (all of it but one character when the run is
\* whitespace only).
NameLabelAt(text, i) ==
    LET Group(colon, run, lead) ==
            IF colon <= Len(text) /\ Ch(text, colon) = ":" /\ run >= 1
            THEN Match(SubSeq(text,
                          colon + 1 + (IF lead = run THEN run - 1 ELSE lead),
                          colon + run))
            ELSE NoMatch
        After(colon) ==
            Group(colon, RunLen(text, colon + 1, "name"),
                  RunLen(text, colon + 1, "space"))
    IN  IF i + 3 <= Len(text) /\ Lower(SubSeq(text, i, i + 3)) = "name"
        THEN After(i + 4 + RunLen(text, i + 4, "space"))
        ELSE NoMatch

\* r"([A-Za-z]+\s+[A-Za-z]+)" tried at position i: "Simple two-word name"
TwoWordsAt(text, i) ==
    LET Words(first, gap, second) ==
            IF first >= 1 /\ gap >= 1 /\ second >= 1
            THEN Match(SubSeq(text, i, i + first + gap + second - 1))
            ELSE NoMatch
        Gap(first, gap) ==
            Words(first, gap, RunLen(text, i + first + gap, "letter"))
        First(first) == Gap(first, RunLen(text, i + first, "space"))
    IN  First(RunLen(text, i, "letter"))

RECURSIVE SearchFrom(_, _, _)
\* re.search(name_patterns[pattern], text, re.IGNORECASE) from position i
\* on: the match at the leftmost position that has one
SearchFrom(text, i, pattern) ==
    LET Step(m) == IF m.found THEN m ELSE SearchFrom(text, i + 1, pattern)
    IN  IF i > Len(text) THEN NoMatch
        ELSE Step(IF pattern = 1 THEN NameLabelAt(text, i)
                  ELSE TwoWordsAt(text, i))

\* The name of a document without PERSON entities: the first of the two
\* name_patterns that matches, group 1 stripped.
NameByRegex(text) ==
    LET First(label, words) ==
            IF label.found THEN Match(Strip(label.text))
            ELSE IF words.found THEN Match(Strip(words.text))
            ELSE NoMatch
    IN  First(SearchFrom(text, 1, 1), SearchFrom(text, 1, 2))

\* The length of a match of three runs of digits of lengths a, b and c,
\* the first at position i, with a separator after the first and after the
\* second; the match takes `taken` digits of the third run.
ThreeRuns(text, i, a, b, c, taken) ==
    IF /\ IsDateSep(Ch(text, i + a))
       /\ b \in 1..2
       /\ IsDateSep(Ch(text, i + a + 1 + b))
       /\ taken >= 1
    THEN a + 1 + b + 1 + taken
    ELSE 0

\* r"(\d{1,2}[/-]\d{1,2}[/-]\d{2,4})" tried at position i: the length of the
\* match, 0 when there is none.  A separator has to follow the one or two
\* digits, so the run of digits from i is one or two long; \d{2,4} takes up
\* to four digits of a run of at least two.
DayFirstAt(text, i) ==
    LET Third(a, b, c) ==
            ThreeRuns(text, i, a, b, c,
                      IF c < 2 THEN 0 ELSE IF c > 4 THEN 4 ELSE c)
        Second(a, b) == Third(a, b, RunLen(text, i + a + b + 2, "digit"))
        First(a) ==
            IF a \in 1..2
            THEN Second(a, RunLen(text, i + a + 1, "digit"))
            ELSE 0
    IN  First(RunLen(text, i, "digit"))

\* r"(\d{4}[/-]\d{1,2}[/-]\d{1,2})" tried at position i; \d{1,2} at the end
\* takes up to two digits of a run of at least one.
YearFirstAt(text, i) ==
    LET Third(b, c) ==
            ThreeRuns(text, i, 4, b, c, IF c > 2 THEN 2 ELSE c)
        Second(b) == Third(b, RunLen(text, i + 5 + b + 1, "digit"))
    IN  IF RunLen(text, i, "digit") = 4
        THEN Second(RunLen(text, i + 5, "digit"))
        ELSE 0

MonthAbbreviations ==
    <<"Jan", "Feb", "Mar", "Apr", "May", "Jun", "Jul", "Aug", "Sep", "Oct",
      "Nov", "Dec">>

\* r"(\d{1,2}\s+(?:Jan|...|Dec)[a-z]*\s+\d{4})" tried at position i: the
\* digits, the whitespace, the abbreviation at position month after n matched
\* characters, [a-z]*, the whitespace, and four digits
MonthNameAt(text, i) ==
    LET Year(n, at, gap2) ==
            IF gap2 >= 1 /\ RunLen(text, at + gap2, "digit") >= 4
            THEN n + gap2 + 4
            ELSE 0
        Rest(n, at, rest) ==
            Year(n + rest, at + rest, RunLen(text, at + rest, "space"))
        Month(n, month) ==
            IF /\ month + 2 <= Len(text)
               /\ \E m \in 1..12 :
                     SubSeq(text, month, month + 2) = MonthAbbreviations[m]
            THEN Rest(n + 3, month + 3, RunLen(text, month + 3, "lower"))
            ELSE 0
        Gap(a, gap1) ==
            IF a \in 1..2 /\ gap1 >= 1
            THEN Month(a + gap1, i + a + gap1)
            ELSE 0
        Day(a) == Gap(a, RunLen(text, i + a, "space"))
    IN  Day(RunLen(text, i, "digit"))

RECURSIVE FindAllFrom(_, _, _)
\* re.findall(date_patterns[pattern], text) from position i on: the matches
\* from left to right, the search resuming where the last match ended.
FindAllFrom(text, i, pattern) ==
    LET Step(n) ==
            IF n > 0
            THEN <<SubSeq(text, i, i + n - 1)>>
                 \o FindAllFrom(text, i + n, pattern)
            ELSE FindAllFrom(text, i + 1, pattern)
    IN  IF i > Len(text) THEN <<>>
        ELSE Step(CASE pattern = 1 -> DayFirstAt(text, i)
                    [] pattern = 2 -> YearFirstAt(text, i)
                    [] pattern = 3 -> MonthNameAt(text, i))

\* ExtractDates with the matches of the three patterns merged
ExtractDatesMerged(text) ==
    FindAllFrom(text, 1, 1) \o FindAllFrom(text, 1, 2)
    \o FindAllFrom(text, 1, 3)

\* The matches of the first of the three date_patterns that has any
ExtractDates(text) ==
    LET Or(matches, others) == IF matches # <<>> THEN matches ELSE others
    IN  Or(FindAllFrom(text, 1, 1),
           Or(FindAllFrom(text, 1, 2), FindAllFrom(text, 1, 3)))

----------------------------------------------------------------------------
(* difflib.SequenceMatcher(None, a, b).ratio() *)

\* The lengths of the blocks a and b have in common
CommonLengths(a, b) ==
    {k \in 1..Len(a) :
        \E i \in 1..(Len(a) - k + 1) : \E j \in 1..(Len(b) - k + 1) :
            SubSeq(a, i, i + k - 1) = SubSeq(b, j, j + k - 1)}

Least(set) == CHOOSE x \in set : \A y \in set : x <= y

\* find_longest_match: <<i, j, k>>, the longest common block, the one that
\* starts earliest in a and, of those, earliest in b.  (No junk: isjunk is
\* None, and autojunk only applies from 200 characters.)
LongestMatch(a, b) ==
    LET StartsInB(i, k) ==
            {j \in 1..(Len(b) - k + 1) :
                SubSeq(a, i, i + k - 1) = SubSeq(b, j, j + k - 1)}
        StartsInA(k) ==
            {i \in 1..(Len(a) - k + 1) : StartsInB(i, k) # {}}
        At(i, k) == <<i, Least(StartsInB(i, k)), k>>
        Of(k) == At(Least(StartsInA(k)), k)
    IN  Of(CHOOSE k \in CommonLengths(a, b) :
               \A other \in CommonLengths(a, b) : other <= k)

RECURSIVE MatchedCharacters(_, _)
\* The total size of get_matching_blocks(): the longest block m, then the
\* same to its left and to its right.
MatchedCharacters(a, b) ==
    LET Around(m) ==
            m[3]
            + MatchedCharacters(SubSeq(a, 1, m[1] - 1),
                                SubSeq(b, 1, m[2] - 1))
            + MatchedCharacters(SubSeq(a, m[1] + m[3], Len(a)),
                                SubSeq(b, m[2] + m[3], Len(b)))
    IN  IF CommonLengths(a, b) = {} THEN 0
        ELSE Around(LongestMatch(a, b))

\* ratio() < 0.7, where ratio() is 2.0 * matches / (len(a) + len(b)), and
\* 1.0 when both are empty
TooDifferent(a, b) ==
    /\ Len(a) + Len(b) > 0
    /\ 10 * 2 * MatchedCharacters(a, b) < 7 * (Len(a) + Len(b))

----------------------------------------------------------------------------
(* validate_cross_document_consistency *)

EntitiesOf(doc) == Get(doc.entities, <<>>)

\* entities.get('PERSON', [])
PersonEntities(entities) ==
    IF "PERSON" \in DOMAIN entities.v THEN entities.v["PERSON"] ELSE <<>>

\* The name a document yields: the first PERSON entity, else the name the
\* regular expressions find in its text (NoMatch when they find none).
NameOfDoc(doc) ==
    LET FirstOr(person_entities, by_regex) ==
            IF Len(person_entities) > 0 THEN Match(person_entities[1])
            ELSE by_regex
    IN  FirstOr(PersonEntities(EntitiesOf(doc)),
                NameByRegex(Get(doc.text, "").v))

\* entities is None (entities.get raises AttributeError) or text is None
\* (re.search or re.findall raises TypeError)
CrossRaises(docs) ==
    \E i \in 1..Len(docs) :
        \/ IsNone(EntitiesOf(docs[i].doc))
        \/ IsNone(Get(docs[i].doc.text, ""))

\* names_by_doc: the documents that yield a name, in insertion order,
\* each with its name
NamesByDoc(docs) ==
    LET Named(named) ==
            [i \in 1..Len(named) |->
                [type |-> named[i].type, name |-> named[i].match.text]]
    IN  Named(SelectSeq([i \in 1..Len(docs) |->
                            [type |-> docs[i].type,
                             match |-> NameOfDoc(docs[i].doc)]],
                        LAMBDA entry : entry.match.found))

NameInconsistency(reference, other) ==
    [type |-> "name_inconsistency", document |-> "",
     documents |-> <<reference, other>>, severity |-> "critical"]

\* CrossNameIssues with every pair of names compared
NameIssuesAllPairs(names_by_doc) ==
    Concat([i \in 1..Len(names_by_doc) |->
        Concat([j \in 1..Len(names_by_doc) |->
            IF i < j /\ TooDifferent(Lower(names_by_doc[i].name),
                                     Lower(names_by_doc[j].name))
            THEN <<NameInconsistency(names_by_doc[i].type,
                                     names_by_doc[j].type)>>
            ELSE <<>>])])

\* CrossNameIssues without .lower()
NameIssuesCaseSensitive(names_by_doc) ==
    IF Len(names_by_doc) >= 2
    THEN Concat([i \in 1..Len(names_by_doc) |->
            IF i > 1 /\ TooDifferent(names_by_doc[1].name,
                                     names_by_doc[i].name)
            THEN <<NameInconsistency(names_by_doc[1].type,
                                     names_by_doc[i].type)>>
            ELSE <<>>])
    ELSE <<>>

\* "Compare names across documents": every name but the first against the
\* first
CrossNameIssues(names_by_doc) ==
    IF Len(names_by_doc) >= 2
    THEN Concat([i \in 1..Len(names_by_doc) |->
            IF i > 1 /\ TooDifferent(Lower(names_by_doc[1].name),
                                     Lower(names_by_doc[i].name))
            THEN <<NameInconsistency(names_by_doc[1].type,
                                     names_by_doc[i].type)>>
            ELSE <<>>])
    ELSE <<>>

\* dates_by_doc: the documents whose text yields date strings, in insertion
\* order, each with its date strings
DatesByDoc(docs) ==
    SelectSeq([i \in 1..Len(docs) |->
                  [type |-> docs[i].type,
                   dates |-> ExtractDates(Get(docs[i].doc.text, "").v)]],
              LAMBDA entry : entry.dates # <<>>)

\* The six formats the date strings are parsed with, in order
DateFormats ==
    << [directives |-> <<"d", "m", "Y">>, sep |-> "/"],
       [directives |-> <<"m", "d", "Y">>, sep |-> "/"],
       [directives |-> <<"Y", "m", "d">>, sep |-> "/"],
       [directives |-> <<"d", "m", "Y">>, sep |-> "-"],
       [directives |-> <<"m", "d", "Y">>, sep |-> "-"],
       [directives |-> <<"Y", "m", "d">>, sep |-> "-"] >>

\* date_obj: the date under the first format that parses the string
ParseDateString(date_str) ==
    LET With(f) ==
            Strptime(date_str, DateFormats[f].directives, DateFormats[f].sep)
        First(parses) ==
            IF parses = {} THEN NoDate ELSE With(Least(parses))
    IN  First({f \in 1..Len(DateFormats) : With(f) # NoDate})

\* IsFuture with >= for >
IsFutureOrToday(date_str, today) ==
    LET OnOrAfter(date_obj) ==
            /\ date_obj # NoDate
            /\ (DateAfter(date_obj, today) \/ date_obj = today)
    IN  OnOrAfter(ParseDateString(date_str))

\* IsFuture with the comparison the other way round
IsFutureReversed(date_str, today) ==
    LET Before(date_obj) == date_obj # NoDate /\ DateAfter(today, date_obj)
    IN  Before(ParseDateString(date_str))

\* date_obj and date_obj > datetime.now(): date_obj is the midnight that
\* begins its day, so it is after now exactly when its day is after today.
IsFuture(date_str, today) ==
    LET After(date_obj) == date_obj # NoDate /\ DateAfter(date_obj, today)
    IN  After(ParseDateString(date_str))

FutureDateIssuesOf(entry, today) ==
    Concat([d \in 1..Len(entry.dates) |->
        When(IsFuture(entry.dates[d], today),
             Issue("future_date", entry.type, "critical"))])

\* FutureDateIssues without the test of len(dates_by_doc)
FutureDateIssuesAlways(dates_by_doc, today) ==
    Concat([i \in 1..Len(dates_by_doc) |->
        FutureDateIssuesOf(dates_by_doc[i], today)])

\* "Check for document issuance timeline consistency"
FutureDateIssues(dates_by_doc, today) ==
    IF Len(dates_by_doc) >= 2
    THEN Concat([i \in 1..Len(dates_by_doc) |->
            FutureDateIssuesOf(dates_by_doc[i], today)])
    ELSE <<>>

CrossIssues(docs, today) ==
    CrossNameIssues(NamesByDoc(docs))
    \o FutureDateIssues(DatesByDoc(docs), today)

\* validate_cross_document_consistency without the early return
validate_cross_no_short_circuit(docs, today) ==
    IF CrossRaises(docs) THEN Raised
    ELSE CategoryResult(CrossIssues(docs, today))

validate_cross_document_consistency(docs, today) ==
    IF Len(docs) < 2
    THEN [raised |-> FALSE, issues |-> <<>>, status |-> "Passed"]
    ELSE IF CrossRaises(docs) THEN Raised
    ELSE CategoryResult(CrossIssues(docs, today))

----------------------------------------------------------------------------
(* validate_documents *)

Categories ==
    <<"personal_validation", "academic_validation", "document_authenticity",
      "cross_document_consistency">>

\* OverallStatus without the cross-document category
OverallStatusWorstOfFirstThree(results) ==
    LET Worst(issues) ==
            IF CountSeverity(issues, "critical") > 0 THEN "Failed"
            ELSE IF CountSeverity(issues, "warning") > 0 THEN "Warning"
            ELSE "Passed"
    IN  Worst(results["personal_validation"].issues
              \o results["academic_validation"].issues
              \o results["document_authenticity"].issues)

\* "Calculate overall status based on validation results": the critical and
\* the warning issues of the four categories are counted.
OverallStatus(results) ==
    LET Worst(issues) ==
            IF CountSeverity(issues, "critical") > 0 THEN "Failed"
            ELSE IF CountSeverity(issues, "warning") > 0 THEN "Warning"
            ELSE "Passed"
    IN  Worst(Concat([c \in 1..4 |-> results[Categories[c]].issues]))

\* validate_documents with one issue list that the personal and the academic
\* validator both append to
validate_documents_sharing(docs, pd, ad, today) ==
    LET Shared(first, second) ==
            IF first.raised \/ second.raised
            THEN Raised
            ELSE CategoryResult(first.issues \o second.issues)
        Report(results) ==
            IF \E c \in 1..4 : results[Categories[c]].raised
            THEN Raised
            ELSE [raised |-> FALSE,
                  personal_validation |-> results.personal_validation,
                  academic_validation |-> results.academic_validation,
                  document_authenticity |-> results.document_authenticity,
                  cross_document_consistency |->
                      results.cross_document_consistency,
                  overall_status |-> OverallStatus(results)]
    IN  Report([personal_validation |-> validate_personal_info(docs, pd),
                academic_validation |->
                    Shared(validate_personal_info(docs, pd),
                           validate_academic_info(docs, ad)),
                document_authenticity |->
                    validate_document_authenticity(docs),
                cross_document_consistency |->
                    validate_cross_document_consistency(docs, today)])

\* The report of the four results, or Raised when one of the four
\* validators raises (nothing catches the exception).
validate_documents(docs, pd, ad, today) ==
    LET Report(results) ==
            IF \E c \in 1..4 : results[Categories[c]].raised
            THEN Raised
            ELSE [raised |-> FALSE,
                  personal_validation |-> results.personal_validation,
                  academic_validation |-> results.academic_validation,
                  document_authenticity |-> results.document_authenticity,
                  cross_document_consistency |->
                      results.cross_document_consistency,
                  overall_status |-> OverallStatus(results)]
    IN  Report([personal_validation |-> validate_personal_info(docs, pd),
                academic_validation |-> validate_academic_info(docs, ad),
                document_authenticity |->
                    validate_document_authenticity(docs),
                cross_document_consistency |->
                    validate_cross_document_consistency(docs, today)])

----------------------------------------------------------------------------
(* validate_with_ai *)

\* The fixed report of generate_fallback_validation
generate_fallback_validation ==
    LET Warning(issues) ==
            [raised |-> FALSE, issues |-> issues, status |-> "Warning"]
    IN  [raised |-> FALSE,
         personal_validation |->
             Warning(<<Issue("ai_validation_failed", "all", "warning")>>),
         academic_validation |-> Warning(<<>>),
         document_authenticity |-> Warning(<<>>),
         cross_document_consistency |-> Warning(<<>>),
         overall_status |-> "Warning"]

\* A response text is kept as what re.search and json.loads make of it:
\* json is "absent" when the text holds no {...}, "invalid" when the braces
\* do not hold JSON, "malformed" when they hold an object whose categories
\* are not objects (the count of the issues then raises AttributeError), and
\* "object" with the decoded dictionary otherwise.  The result is Raised, or
\* the value returned: None, or the dictionary with its overall_status
\* computed when the response gave none.
parse_ai_response(response_text) ==
    LET Returns(value) == [raised |-> FALSE, value |-> value]
        WithOverall(validation_result) ==
            IF "overall_status" \in DOMAIN validation_result
            THEN validation_result
            ELSE [c \in DOMAIN validation_result \cup {"overall_status"} |->
                     IF c = "overall_status"
                     THEN OverallStatus(validation_result)
                     ELSE validation_result[c]]
    IN  CASE response_text.json = "absent" -> Returns(None)
          [] response_text.json = "invalid" -> Returns(None)
          [] response_text.json = "malformed" -> Raised
          [] response_text.json = "object" ->
                 Returns(Val(WithOverall(response_text.value)))

\* validate_with_ai with `return parse_ai_response(response.text)` outside
\* the try block
validate_with_ai_unguarded(docs, pd, ad, model, response) ==
    LET Fallback(cause) ==
            [generate_fallback_validation EXCEPT
                !.personal_validation.issues =
                    Append(@, Issue(cause, "all", "warning"))]
        Parsed(validation_result) ==
            IF validation_result.raised THEN Raised
            ELSE IF validation_result.value = None
            THEN Fallback("ai_parsing_error")
            ELSE validation_result.value.v
    IN  IF model = None THEN Fallback("api_key_missing")
        ELSE IF response.raises THEN Raised
        ELSE Parsed(parse_ai_response(response.text))

\* The prompt is built from the arguments and does not bear on the report.
\* model is the module-level model (None without GOOGLE_API_KEY); response is
\* what model.generate_content gives: it raises, or response.text is a text.
validate_with_ai(docs, pd, ad, model, response) ==
    LET Fallback(cause) ==
            [generate_fallback_validation EXCEPT
                !.personal_validation.issues =
                    Append(@, Issue(cause, "all", "warning"))]
        Parsed(validation_result) ==
            IF validation_result.raised THEN Fallback("ai_validation_error")
            ELSE IF validation_result.value = None
            THEN Fallback("ai_parsing_error")
            ELSE validation_result.value.v
    IN  IF model = None THEN Fallback("api_key_missing")
        ELSE IF response.raises THEN Fallback("ai_validation_error")
        ELSE Parsed(parse_ai_response(response.text))

\* The reports a response of the model may hold: one with every category
\* Passed, and one without overall_status that holds a critical issue
AiReports ==
    LET Report(personal, overall) ==
            [raised |-> FALSE,
             personal_validation |-> CategoryResult(personal),
             academic_validation |-> CategoryResult(<<>>),
             document_authenticity |-> CategoryResult(<<>>),
             cross_document_consistency |-> CategoryResult(<<>>),
             overall_status |-> overall]
        WithoutOverall(report) ==
            [c \in DOMAIN report \ {"overall_status"} |-> report[c]]
    IN  {Report(<<>>, "Passed"),
         WithoutOverall(
             Report(<<Issue("name_mismatch", "student_id", "critical")>>,
                    "Failed"))}

\* What model.generate_content and response.text may give
AiResponses ==
    {[raises |-> TRUE]}
    \cup {[raises |-> FALSE, text |-> [json |-> j]] :
             j \in {"absent", "invalid", "malformed"}}
    \cup {[raises |-> FALSE, text |-> [json |-> "object", value |-> v]] :
             v \in AiReports}

----------------------------------------------------------------------------
(* The calls *)

Call(name, value) ==
    /\ called = "none"
    /\ called' = name
    /\ result' = value
    /\ UNCHANGED <<personal_data, academic_data, processed_docs, now,
                   session_state, records>>

CallValidatePersonalInfo ==
    Call("validate_personal_info",
         validate_personal_info(processed_docs, personal_data))

CallValidateAcademicInfo ==
    Call("validate_academic_info",
         validate_academic_info(processed_docs, academic_data))

CallValidateDocumentAuthenticity ==
    Call("validate_document_authenticity",
         validate_document_authenticity(processed_docs))

CallValidateCrossDocumentConsistency ==
    Call("validate_cross_document_consistency",
         validate_cross_document_consistency(processed_docs, now))

CallValidateDocuments ==
    Call("validate_documents",
         validate_documents(processed_docs, personal_data, academic_data,
                            now))

\* The module-level model is set once, at import, from GOOGLE_API_KEY; the
\* call draws it, and the response of the model, as inputs.
CallValidateWithAI ==
    \E model \in {None, Val("gemini-pro")} : \E response \in AiResponses :
        Call("validate_with_ai",
             validate_with_ai(processed_docs, personal_data, academic_data,
                              model, response))

Next ==
    \/ CallValidatePersonalInfo
    \/ CallValidateAcademicInfo
    \/ CallValidateDocumentAuthenticity
    \/ CallValidateCrossDocumentConsistency
    \/ CallValidateDocuments
    \/ CallValidateWithAI

----------------------------------------------------------------------------
(* The inputs *)

\* The most documents of a document map
MaxDocs == 2

Doc(text, entities, metadata) ==
    [text |-> text, entities |-> entities, metadata |-> metadata]

Persons(names) == Val([PERSON |-> names])

AllMarkers ==
    [has_header |-> TRUE, has_footer |-> TRUE, has_date |-> TRUE,
     has_signature |-> TRUE, has_letterhead |-> TRUE]

\* Metadata that passes every check of every document type
FullMetadata ==
    [format_markers |-> Val(AllMarkers), id_number |-> Val("A12"),
     courses |-> Val(<<"CS 101">>), grades |-> Val(<<"A">>),
     status |-> Val("Active"), graduation_year |-> Val("2024"),
     graduation_season |-> Val("Spring"), has_signature |-> Val(TRUE)]

\* The document maps of at most MaxDocs documents, of distinct types among
\* types, with contents among contents, in every insertion order
DocMaps(types, contents) ==
    UNION {{docs \in [1..n -> [type : types, doc : contents]] :
               \A i, j \in 1..n : i # j => docs[i].type # docs[j].type} :
           n \in 0..MaxDocs}

PersonalData(name, dob, citizenship, address, gender) ==
    [name |-> name, dob |-> dob, citizenship |-> citizenship,
     address |-> address, gender |-> gender]

AcademicData(major, degree_level, university, grade, year, season) ==
    [major |-> major, degree_level |-> degree_level,
     university |-> university, study_mode |-> "", grade |-> grade,
     graduation_year |-> year, graduation_season |-> season]

NoPersonalData == PersonalData("", "", "", "", "")
NoAcademicData == AcademicData("", "", "", "", "", "")

\* "Initialize session state for multi-step process"
InitialSession ==
    [step |-> 1, personal_data |-> <<>>, academic_data |-> <<>>,
     documents |-> <<>>, validation_results |-> None]

InitWith(personal, academic, docs, todays) ==
    /\ personal_data \in personal
    /\ academic_data \in academic
    /\ processed_docs \in docs
    /\ now \in todays
    /\ called = "none"
    /\ result = NoResult
    /\ session_state = InitialSession
    /\ records = <<>>

\* A document as extract_*_metadata and detect_format_markers leave it: a
\* text, no entities, and the metadata the checks read
Extracted(text, metadata) == Doc(Val(text), Absent, Val(metadata))

\* A file process_documents cannot read (neither PDF nor image): its text is
\* None and its metadata holds the file's type and name only.
Unreadable == Doc(None, Absent, Val([type |-> Val("docx")]))

DocTypes == {"student_id", "student_record", "transcript"}

Today == <<2026, 11, 4>>
Yesterday == <<2026, 11, 3>>

\* A run of the whole engine: documents as the extraction yields them
\* (complete; with defects; with metadata values that are None, as the
\* extract_*_metadata functions return them when nothing matches;
\* unreadable), and claims that are empty, of a name only, or complete.
Init ==
    InitWith(
        { NoPersonalData,
          PersonalData("John Smith", "", "", "", ""),
          PersonalData("John Smith", "2003-02-01", "USA", "12 Main St",
                       "Male") },
        { NoAcademicData,
          AcademicData("Physics", "Bachelor", "MIT", "A", "2024", "Spring"),
          AcademicData("", "", "Oxford", "", "", "") },
        DocMaps(DocTypes,
            { Doc(Val("Name: John Smith\nMIT bachelor 01/02/2003"),
                  Persons(<<"John Smith">>), Val(FullMetadata)),
              Doc(Val("Maria Garcia 15/01/2031"), Val(<<>>),
                  Val([format_markers |-> Val([has_header |-> TRUE,
                                               has_date |-> FALSE]),
                       id_number |-> None, courses |-> Val(<<>>),
                       grades |-> Val(<<>>), status |-> None,
                       graduation_year |-> None,
                       graduation_season |-> None])),
              Extracted("Maria Garcia 15/01/2031", FullMetadata),
              Unreadable }),
        {Today})

Spec == Init /\ [][Next]_vars

\* Runs on claimed names with and without short tokens, against texts that
\* hold all, some or none of the tokens, with the other claim fields empty
\* or given.
InitPersonal ==
    InitWith(
        { PersonalData(name, "", "", "", "") :
              name \in {"", "John Smith", "Li Wu", "Juan de la Cruz"} }
        \cup { PersonalData("", "2003-02-01", "USA", "12 Main St", "Male") },
        { NoAcademicData, AcademicData("", "", "", "", "2024", "Spring") },
        DocMaps(DocTypes,
            { Extracted("Name: John Smith", FullMetadata),
              Extracted("li wu, born 01/02/2003", FullMetadata),
              Extracted("student: cruz", FullMetadata),
              Extracted("", FullMetadata) }),
        {Today})

SpecPersonal == InitPersonal /\ [][Next]_vars

\* Runs on claimed universities of one and of several words, against texts
\* that hold the name verbatim, its words in another order, one of its
\* words, or none.
InitAcademic ==
    InitWith(
        {NoPersonalData},
        { AcademicData("", "", university, "", "", "") :
              university \in {"", "MIT", "University of Oxford"} }
        \cup { AcademicData("Physics", "", "University of Oxford", "", "",
                            "") },
        DocMaps(DocTypes,
            { Extracted("the university of oxford, physics", FullMetadata),
              Extracted("Oxford University", FullMetadata),
              Extracted("oxford", FullMetadata),
              Extracted("MIT transcript", FullMetadata),
              Unreadable }),
        {Today})

SpecAcademic == InitAcademic /\ [][Next]_vars

\* Format markers as detect_format_markers returns them
Markers(has_header, has_date) ==
    Val([has_header |-> has_header, has_date |-> has_date,
         has_footer |-> FALSE, has_signature |-> FALSE,
         has_letterhead |-> TRUE])

\* Runs on documents whose id_number is a value, empty, None or absent and
\* whose format markers are true, false or absent.
InitAuthenticity ==
    InitWith(
        {NoPersonalData}, {NoAcademicData},
        DocMaps(DocTypes,
            { Extracted("id", [format_markers |-> Markers(TRUE, TRUE),
                               id_number |-> Val("A12")]),
              Extracted("id", [format_markers |-> Markers(TRUE, FALSE),
                               id_number |-> Val("A12")]),
              Extracted("id", [format_markers |-> Val([has_header |-> TRUE]),
                               id_number |-> Val("A12")]),
              Extracted("id", [format_markers |-> Markers(FALSE, FALSE),
                               id_number |-> Val("A12"),
                               status |-> Val("Active")]),
              Extracted("id", [format_markers |-> Markers(TRUE, TRUE),
                               id_number |-> Val("")]),
              Extracted("id", [format_markers |-> Markers(FALSE, TRUE),
                               id_number |-> None,
                               courses |-> Val(<<"CS 101">>),
                               grades |-> Val(<<"A">>)]),
              Extracted("id", [format_markers |-> Markers(TRUE, TRUE)]),
              Doc(Val("id"), Absent, Absent) }),
        {Today})

SpecAuthenticity == InitAuthenticity /\ [][Next]_vars

\* Runs on documents that yield names (as entities, after a "Name:" label,
\* as the first two words) or none, and dates (past, of the day of one of
\* the two runs, future, written with the month's name) or none, and on an
\* unreadable one.
InitCross ==
    InitWith(
        {NoPersonalData}, {NoAcademicData},
        DocMaps(DocTypes,
            { Doc(Val("John Smith 01/02/2003"), Persons(<<"John Smith">>),
                  Val(FullMetadata)),
              Extracted("Jon Smyth, issued 04/11/2026", FullMetadata),
              Extracted("Name: Maria Garcia\n15/01/2031 and 01/02/2003",
                        FullMetadata),
              Doc(Val("no date"), Persons(<<"JOHN SMITH">>),
                  Val(FullMetadata)),
              Extracted("15 January 2031", FullMetadata),
              Unreadable }),
        {Today, Yesterday})

SpecCross == InitCross /\ [][Next]_vars

\* Runs on documents of each of the six types of the upload form whose
\* metadata is complete, empty throughout, mixed (markers and fields absent
\* or None, one of courses and grades empty, the signature seen by one of
\* the two detectors only) or absent.
SpecDocumentTypes ==
    /\ InitWith(
        {NoPersonalData}, {NoAcademicData},
        DocMaps({"student_id", "student_record", "transcript", "diploma",
                 "graduation_letter", "union_letter"},
            { Extracted("id", FullMetadata),
              Extracted("id", [format_markers |->
                                   Val([m \in DOMAIN AllMarkers |-> FALSE]),
                               id_number |-> Val(""), courses |-> Val(<<>>),
                               grades |-> Val(<<>>), status |-> Val(""),
                               has_signature |-> Val(FALSE)]),
              Extracted("id", [format_markers |-> Val([has_header |-> TRUE,
                                                       has_signature |-> FALSE]),
                               id_number |-> None,
                               courses |-> Val(<<"CS 101">>),
                               grades |-> Val(<<>>), status |-> None,
                               has_signature |-> Val(TRUE)]),
              Extracted("id", [format_markers |->
                                   Val([Markers(FALSE, TRUE).v
                                            EXCEPT !.has_signature = TRUE]),
                               id_number |-> Val("A12"),
                               courses |-> Val(<<>>), grades |-> Val(<<"A">>),
                               status |-> Val("Active")]),
              Doc(Val("id"), Absent, Absent) }),
        {Today})
    /\ [][Next]_vars

\* Runs of claims of a graduation year, a graduation season, both, or a
\* degree level, on documents whose texts hold a degree word, an
\* abbreviation, a word that merely contains one ("diploma" holds "ma") or
\* none, and whose graduation year and season equal the claim (up to case),
\* differ from it, or are None (as extract_student_record_metadata returns
\* them when nothing matches), empty or absent.
SpecAcademicFields ==
    /\ InitWith(
        {NoPersonalData},
        { NoAcademicData,
          AcademicData("", "", "", "", "2024", ""),
          AcademicData("", "", "", "", "", "Spring"),
          AcademicData("", "", "", "", "2024", "Spring"),
          AcademicData("", "Bachelor", "", "", "", ""),
          AcademicData("", "Master", "", "", "", ""),
          AcademicData("", "Doctorate", "", "", "", ""),
          AcademicData("", "Certificate", "", "", "", ""),
          AcademicData("", "Diploma", "", "", "", ""),
          AcademicData("", "Other", "", "", "", "") },
        DocMaps({"student_record", "transcript", "diploma"},
            { Extracted("Bachelor of Science", FullMetadata),
              Extracted("B.Sc. in physics",
                        [format_markers |-> Val(AllMarkers),
                         graduation_year |-> Val("2023"),
                         graduation_season |-> Val("Autumn")]),
              Extracted("Diploma Supplement",
                        [format_markers |-> Val(AllMarkers),
                         graduation_year |-> None,
                         graduation_season |-> None, status |-> None]),
              Extracted("", [format_markers |-> Val(AllMarkers),
                             graduation_year |-> Val(""),
                             graduation_season |-> Val("")]),
              Extracted("certificate 12",
                        [format_markers |-> Val(AllMarkers)]) }),
        {Today})
    /\ [][Next]_vars

\* Runs of claims of one personal field: a date of birth in each of the two
\* accepted formats, unpadded, of a day that does not exist, or in words; a
\* citizenship; a gender; an address of two parts, of four parts, or of
\* short parts only; on texts that hold a rendering of the date (or the
\* month in lower case), the citizenship, the gender within a longer word,
\* and one part of the address each.
SpecPersonalFields ==
    /\ InitWith(
        { PersonalData("", dob, "", "", "") :
              dob \in {"", "2003-02-01", "01/02/2003", "2003-2-1",
                       "31/02/2003", "Feb 2003"} }
        \cup { PersonalData("", "", "USA", "", ""),
               PersonalData("", "", "", "", "Male") }
        \cup { PersonalData("", "", "", address, "") :
                   address \in {"Main Street, Boston",
                                "Main Street, Boston, Texas, 75001",
                                "NYC, USA"} }
        \cup { PersonalData("John Smith", "2003-02-01", "USA",
                            "Main Street, Boston", "Male") },
        {NoAcademicData},
        DocMaps(DocTypes,
            { Extracted("born 01/02/2003 in the USA", FullMetadata),
              Extracted("DOB: 01 February 2003, female", FullMetadata),
              Extracted("february 01, 2003", FullMetadata),
              Extracted("12 Main Street, Springfield", FullMetadata),
              Extracted("Boston nyc", FullMetadata) }),
        {Today})
    /\ [][Next]_vars

\* Runs of claims with and without a grade on transcripts and student
\* records whose texts hold a letter grade, the word PASS, a letter a-d or
\* f within a word only, or no such letter, and on an unreadable one.
SpecGrades ==
    /\ InitWith(
        {NoPersonalData},
        { AcademicData("", "", "", grade, "", "") :
              grade \in {"", "A", "B+", "Fail"} },
        DocMaps({"transcript", "student_record", "diploma"},
            { Extracted("1: A-, 2: B+", FullMetadata),
              Extracted("result: PASS", FullMetadata),
              Extracted("Score 90%", FullMetadata),
              Extracted("398 units", FullMetadata),
              Extracted("", FullMetadata),
              Unreadable }),
        {Today})
    /\ [][Next]_vars

\* The most documents of the maps of SpecNames
MaxNamedDocs == 3

\* Maps of two to MaxNamedDocs documents whose texts or entities hold one of
\* three names, or none
SpecNames ==
    /\ InitWith(
        {NoPersonalData}, {NoAcademicData},
        UNION {{docs \in [1..n ->
                    [type : {"passport", "student_record", "transcript",
                             "diploma"},
                     doc : { Doc(Val("2003"), Persons(<<"John Smith">>),
                                 Val(FullMetadata)),
                             Extracted("Jon Smyth was here", FullMetadata),
                             Extracted("Name: Maria Garcia", FullMetadata),
                             Extracted("2003", FullMetadata) }]] :
                   \A i, j \in 1..n : i # j => docs[i].type # docs[j].type} :
               n \in 2..MaxNamedDocs},
        {Today})
    /\ [][Next]_vars

\* Documents whose texts hold date strings of the three date_patterns:
\* repeated, of today and tomorrow, with the month as a name, of no
\* calendar day, with a 2-digit year, of several patterns at once, and none
SpecDates ==
    /\ InitWith(
        {NoPersonalData}, {NoAcademicData},
        DocMaps({"passport", "student_record", "union_letter"},
            { Extracted("15/01/2031 and 15/01/2031", FullMetadata),
              Extracted("04/11/2026 05/11/2026", FullMetadata),
              Extracted("15 January 2031", FullMetadata),
              Extracted("31/02/2031", FullMetadata),
              Extracted("5/1/31", FullMetadata),
              Extracted("2031/1/5, 16-01-2031, 17 Jan 2031", FullMetadata),
              Extracted("2031/1/5 or 17 Jan 2031", FullMetadata),
              Extracted("undated", FullMetadata) }),
        {Today})
    /\ [][Next]_vars

----------------------------------------------------------------------------
(* The wizard: src/app.py, src/components, src/utils/database.py *)

\* A dict of st.session_state or an argument of save_validation_data is a
\* record, {} is the empty sequence.  session_state.documents is the
\* sequence of its [type, file] entries in insertion order, file being None
\* or Val of an uploaded file [name, content], content standing for what
\* process_pdf or process_image extracts from the file, or Raised when they
\* raise on it (pdf2image, PIL, cv2 and pytesseract are called unguarded).

\* What the last handler showed: an st.error or st.warning, the value of
\* saved, or the history that was fetched
Shown(handler, value) ==
    /\ called' = handler
    /\ result' = value
    /\ UNCHANGED <<personal_data, academic_data, processed_docs, now>>

\* render_personal_form without the test of name and email
render_personal_form_unchecked ==
    /\ session_state.step = 1
    /\ \E name \in {"", "John Smith"} : \E email \in {"", "a@x.org"} :
        /\ session_state' =
               [session_state EXCEPT
                   !.personal_data =
                       [name |-> name, dob |-> "1998-08-11",
                        citizenship |-> "", language |-> "English",
                        gender |-> "Male", email |-> email,
                        phone |-> "", address |-> ""],
                   !.step = 2]
        /\ Shown("render_personal_form", "rerun")
    /\ UNCHANGED records

\* "Store data in session state", "Move to next step", st.rerun()
render_personal_form ==
    /\ session_state.step = 1
    /\ \E name \in {"", "John Smith"} : \E email \in {"", "a@x.org", "b@x.org"} :
        IF name = "" \/ email = ""
        THEN /\ Shown("render_personal_form", "error")
             /\ UNCHANGED session_state
        ELSE /\ session_state' =
                    [session_state EXCEPT
                        !.personal_data =
                            [name |-> name, dob |-> "1998-08-11",
                             citizenship |-> "", language |-> "English",
                             gender |-> "Male", email |-> email,
                             phone |-> "", address |-> ""],
                        !.step = 2]
             /\ Shown("render_personal_form", "rerun")
    /\ UNCHANGED records

\* "Back to Personal Info", or "Save & Continue"
render_academic_form ==
    /\ session_state.step = 2
    /\ \/ /\ session_state' = [session_state EXCEPT !.step = 1]
          /\ Shown("render_academic_form", "rerun")
       \/ \E university \in {"", "MIT"} : \E major \in {"", "Physics"} :
            IF university = "" \/ major = ""
            THEN /\ Shown("render_academic_form", "error")
                 /\ UNCHANGED session_state
            ELSE /\ session_state' =
                        [session_state EXCEPT
                            !.academic_data =
                                AcademicData(major, "Bachelor's", university,
                                             "", "", ""),
                            !.step = 3]
                 /\ Shown("render_academic_form", "rerun")
    /\ UNCHANGED records

\* "Back to Academic Info", or "Upload & Validate" with the files of the six
\* uploaders: any() of them, then the six keys are stored
render_document_upload ==
    /\ session_state.step = 3
    /\ \/ /\ session_state' = [session_state EXCEPT !.step = 2]
          /\ Shown("render_document_upload", "rerun")
       \/ \E student_id \in {None,
                              Val([name |-> "id.PDF",
                                   content |-> Extracted("John Smith",
                                                         FullMetadata)]),
                              Val([name |-> "scan.pdf",
                                   content |-> Raised])} :
          \E transcript \in {None, Val([name |-> "grades.docx",
                                         content |-> None])} :
            IF IsNone(student_id) /\ IsNone(transcript)
            THEN /\ Shown("render_document_upload", "warning")
                 /\ UNCHANGED session_state
            ELSE /\ session_state' =
                        [session_state EXCEPT
                            !.documents =
                                << [type |-> "student_id",
                                    file |-> student_id],
                                   [type |-> "student_record", file |-> None],
                                   [type |-> "transcript",
                                    file |-> transcript],
                                   [type |-> "diploma", file |-> None],
                                   [type |-> "graduation_letter",
                                    file |-> None],
                                   [type |-> "union_letter",
                                    file |-> None] >>,
                            !.step = 4]
                 /\ Shown("render_document_upload", "rerun")
    /\ UNCHANGED records

\* The files that are not None, in order; one that is neither a PDF nor an
\* image keeps no text.  [raised |-> FALSE, value |-> processed_docs], or
\* Raised when process_pdf or process_image raises.
process_documents(uploaded_documents) ==
    LET file_extension(file) ==
            Lower(SplitOn(file.name, ".", "")[Len(SplitOn(file.name, ".", ""))])
        Processed(file) ==
            IF file_extension(file) \in {"pdf", "jpg", "jpeg", "png"}
            THEN file.content
            ELSE Doc(None, Absent,
                     Val([type |-> Val(file_extension(file)),
                          name |-> Val(file.name)]))
        Of(files) ==
            IF \E i \in 1..Len(files) :
                   "raised" \in DOMAIN Processed(files[i].file.v)
            THEN Raised
            ELSE [raised |-> FALSE,
                  value |-> [i \in 1..Len(files) |->
                                [type |-> files[i].type,
                                 doc |-> Processed(files[i].file.v)]]]
    IN  Of(SelectSeq(uploaded_documents, LAMBDA entry : ~IsNone(entry.file)))

\* The most records the table holds
MaxRecords == 3

\* save_validation_data with the record kept when the commit fails
save_validation_data_kept(table, pd, ad, validation_results, fails) ==
    [saved |-> ~fails,
     records |->
         Append(table,
             [id |-> Len(table) + 1, email |-> pd.email, name |-> pd.name,
              personal_data |-> [json |-> pd],
              academic_data |-> [json |-> ad],
              validation_results |-> [json |-> validation_results],
              status |-> validation_results.overall_status,
              created_at |-> Len(table) + 1])]

\* save_validation_data: [saved, records], the value returned and the table
\* afterwards.  fails stands for an exception in the try block (json.dumps,
\* session.add, session.commit): nothing is committed then.  json.dumps(v)
\* is [json |-> v]; id and created_at grow with every record.
save_validation_data(table, pd, ad, validation_results, fails) ==
    LET get(dict, key, default) ==
            IF key \in DOMAIN dict THEN dict[key] ELSE default
        record ==
            [id |-> Len(table) + 1,
             email |-> get(pd, "email", "unknown"),
             name |-> get(pd, "name", "Unknown User"),
             personal_data |-> [json |-> pd],
             academic_data |-> [json |-> ad],
             validation_results |-> [json |-> validation_results],
             status |-> get(validation_results, "overall_status", "Unknown"),
             created_at |-> Len(table) + 1]
    IN  IF fails THEN [saved |-> FALSE, records |-> table]
        ELSE [saved |-> TRUE, records |-> Append(table, record)]

\* get_user_validation_history: filter_by(email=email), order_by(created_at
\* .desc()), to_dict() of each, or [] when fails (an exception in the try
\* block)
get_user_validation_history(table, email, fails) ==
    LET to_dict(record) ==
            [record EXCEPT !.personal_data = @.json,
                           !.academic_data = @.json,
                           !.validation_results = @.json]
        Newer(of, record) ==
            {i \in 1..Len(of) : of[i].created_at > record.created_at}
        Ordered(of) ==
            [i \in 1..Len(of) |->
                to_dict(of[CHOOSE k \in 1..Len(of) :
                               Cardinality(Newer(of, of[k])) = i - 1])]
    IN  IF fails THEN <<>>
        ELSE Ordered(SelectSeq(table, LAMBDA record : record.email = email))

\* RenderResults without the assignment to validation_results
RenderResultsUnstored ==
    /\ session_state.step = 4
    /\ Len(records) < MaxRecords
    /\ \E fails \in BOOLEAN :
         LET Saved(saving) ==
                 /\ records' = saving.records
                 /\ Shown("save_validation_data", saving.saved)
         IN  Saved(save_validation_data(records,
                 session_state.personal_data, session_state.academic_data,
                 generate_fallback_validation, fails))
    /\ UNCHANGED session_state

\* Step 4: "Process and validate documents if not already done" (an
\* exception of process_documents ends the run), "Save validation data to
\* the database", "Display validation results"
RenderResults ==
    /\ session_state.step = 4
    /\ \/ /\ IsNone(session_state.validation_results)
          /\ process_documents(session_state.documents).raised
          /\ Shown("process_and_validate", "exception")
          /\ UNCHANGED <<session_state, records>>
       \/ /\ IsNone(session_state.validation_results)
          /\ ~process_documents(session_state.documents).raised
          /\ Len(records) < MaxRecords
          /\ \E model \in {None, Val("gemini-pro")} :
             \E response \in {r \in AiResponses :
                                  ~r.raises /\ r.text.json = "object"} :
             \E fails \in BOOLEAN :
                LET Save(validation_results) ==
                        save_validation_data(records,
                            session_state.personal_data,
                            session_state.academic_data,
                            validation_results, fails)
                    Stored(validation_results, saving) ==
                        /\ session_state' =
                               [session_state EXCEPT
                                   !.validation_results =
                                       Val(validation_results)]
                        /\ records' = saving.records
                        /\ Shown("save_validation_data", saving.saved)
                    Validated(validation_results) ==
                        Stored(validation_results, Save(validation_results))
                IN  Validated(validate_with_ai(
                        process_documents(session_state.documents).value,
                        session_state.personal_data,
                        session_state.academic_data, model, response))
       \/ /\ ~IsNone(session_state.validation_results)
          /\ Shown("display_validation_results",
                   session_state.validation_results.v)
          /\ UNCHANGED <<session_state, records>>

\* "Reset all session state": the keys are deleted, and the run that
\* st.rerun() starts initializes them again
StartNewValidation ==
    /\ session_state' = InitialSession
    /\ Shown("Start New Validation", "rerun")
    /\ UNCHANGED records

\* ViewValidationHistory with the button always shown
ViewValidationHistoryAlways ==
    /\ session_state' = [session_state EXCEPT !.step = 5]
    /\ Shown("View Validation History", "rerun")
    /\ UNCHANGED records

\* "Only show View History button if user has completed personal info step"
ViewValidationHistory ==
    /\ "email" \in DOMAIN session_state.personal_data
    /\ session_state.personal_data["email"] # ""
    /\ session_state' = [session_state EXCEPT !.step = 5]
    /\ Shown("View Validation History", "rerun")
    /\ UNCHANGED records

\* Step 5
render_validation_history ==
    /\ session_state.step = 5
    /\ IF "email" \notin DOMAIN session_state.personal_data
       THEN Shown("render_validation_history", "warning")
       ELSE IF session_state.personal_data["email"] = ""
       THEN Shown("render_validation_history", "warning")
       ELSE \E fails \in BOOLEAN :
               Shown("get_user_validation_history",
                     get_user_validation_history(records,
                         session_state.personal_data["email"], fails))
    /\ UNCHANGED <<session_state, records>>

\* A run of main(): the button that was pressed, or the step's page
WizardNext ==
    \/ StartNewValidation
    \/ ViewValidationHistory
    \/ render_personal_form
    \/ render_academic_form
    \/ render_document_upload
    \/ RenderResults
    \/ render_validation_history

SpecWizard ==
    /\ InitWith({NoPersonalData}, {NoAcademicData}, {<<>>}, {Today})
    /\ [][WizardNext]_vars

----------------------------------------------------------------------------
(* Properties *)

\* The call of the named function has returned (it did not raise)
Returned(name) == called = name /\ ~result.raised

IssuesOfType(issues, type) == SelectSeq(issues, LAMBDA issue : issue.type = type)

IssuesOfDocument(issues, document) ==
    SelectSeq(issues, LAMBDA issue : issue.document = document)

HasSeverity(issues, severity) ==
    \E i \in 1..Len(issues) : issues[i].severity = severity

CategoryValidators ==
    {"validate_personal_info", "validate_academic_info",
     "validate_document_authenticity", "validate_cross_document_consistency"}

\* The status the issues of a category result call for
StatusRule(category) ==
    category.status =
        IF HasSeverity(category.issues, "critical") THEN "Failed"
        ELSE IF Len(category.issues) > 0 THEN "Warning"
        ELSE "Passed"

\* C1: whenever one of the four category validators returns, on its own or
\* within validate_documents, the status of its result is Failed iff its
\* issue list holds a critical issue, else Warning iff the list is not
\* empty, else Passed; 'Processing' is never returned.
C1_StatusFollowsIssues ==
    /\ called \in CategoryValidators /\ ~result.raised
          => StatusRule(result) /\ result.status # "Processing"
    /\ Returned("validate_documents")
          => \A c \in 1..4 :
                /\ StatusRule(result[Categories[c]])
                /\ result[Categories[c]].status # "Processing"

\* A category result that holds a warning and a critical issue is Failed
C1_Witness ==
    /\ Returned("validate_document_authenticity")
    /\ HasSeverity(result.issues, "warning")
    /\ HasSeverity(result.issues, "critical")
    /\ result.status = "Failed"

AllIssues(report) == Concat([c \in 1..4 |-> report[Categories[c]].issues])

Rank(status) ==
    CASE status = "Passed" -> 0
      [] status = "Warning" -> 1
      [] status = "Failed" -> 2

\* C2: the overall_status of a report of validate_documents is Failed iff
\* some issue of some of the four categories is critical, else Warning iff
\* some category has an issue, else Passed; and it is the worst of the four
\* category statuses under Passed < Warning < Failed.
C2_OverallStatus ==
    Returned("validate_documents") =>
        /\ result.overall_status =
               IF HasSeverity(AllIssues(result), "critical") THEN "Failed"
               ELSE IF Len(AllIssues(result)) > 0 THEN "Warning"
               ELSE "Passed"
        /\ \E c \in 1..4 :
               result[Categories[c]].status = result.overall_status
        /\ \A c \in 1..4 :
               Rank(result[Categories[c]].status)
                   <= Rank(result.overall_status)

\* A report that is Failed on account of the cross-document category alone
C2_Witness ==
    /\ Returned("validate_documents")
    /\ result.overall_status = "Failed"
    /\ result.cross_document_consistency.status = "Failed"
    /\ result.personal_validation.status = "Warning"
    /\ result.academic_validation.status = "Passed"
    /\ result.document_authenticity.status = "Passed"

\* C3: on a document map of 0 or 1 entries validate_cross_document_consistency
\* returns status Passed with an empty issue list, whatever the document
\* holds (names, future dates, even no text at all) and whatever the claim.
C3_FewDocumentsPass ==
    called = "validate_cross_document_consistency" /\ Len(processed_docs) <= 1
        => /\ ~result.raised
           /\ result.issues = <<>>
           /\ result.status = "Passed"

\* A single document that holds a name and a date after the day of the run
C3_Witness ==
    /\ Returned("validate_cross_document_consistency")
    /\ Len(processed_docs) = 1
    /\ ~IsNone(TextOf(processed_docs[1]))
    /\ NameOfDoc(processed_docs[1].doc).found
    /\ \E d \in 1..Len(ExtractDates(TextOf(processed_docs[1]).v)) :
           IsFuture(ExtractDates(TextOf(processed_docs[1]).v)[d], now)
    /\ result.status = "Passed"

\* The text (lowercased) holds the university (lowercased) verbatim, or at
\* least half of its whitespace-separated tokens, of which only those longer
\* than 2 characters count as held
Corroborates(text, university) ==
    \/ Contains(university, text)
    \/ 2 * Cardinality({t \in 1..Len(SplitWhitespace(university)) :
              /\ Len(SplitWhitespace(university)[t]) > 2
              /\ Contains(SplitWhitespace(university)[t], text)})
          >= Len(SplitWhitespace(university))

SomeDocumentCorroborates(docs, university) ==
    \E i \in 1..Len(docs) :
        /\ ~IsNone(TextOf(docs[i]))
        /\ Corroborates(Lower(TextOf(docs[i]).v), Lower(university))

StudentIdChecked ==
    /\ Returned("validate_document_authenticity")
    /\ HasDoc(processed_docs, "student_id")

StudentIdMetadata == MetadataOf(DocOfType(processed_docs, "student_id"))

StudentIdHasNumber ==
    /\ MetaGet(StudentIdMetadata, "id_number").k = "val"
    /\ MetaGet(StudentIdMetadata, "id_number").v # ""

StudentIdMarker(marker) ==
    /\ marker \in DOMAIN FormatMarkersOf(StudentIdMetadata).v
    /\ FormatMarkersOf(StudentIdMetadata).v[marker]

\* C5, as the code has it: a student_id whose id_number is empty, None or
\* absent yields one critical missing_id_number; a student_id with a
\* non-empty id_number and has_header true yields no issue for that document
\* if has_date is true too, and otherwise exactly one, the warning
\* missing_date.
C5_StudentIdChecks ==
    StudentIdChecked =>
        /\ ~StudentIdHasNumber =>
               IssuesOfType(IssuesOfDocument(result.issues, "student_id"),
                            "missing_id_number")
                   = <<Issue("missing_id_number", "student_id", "critical")>>
        /\ StudentIdHasNumber /\ StudentIdMarker("has_header") =>
               IssuesOfDocument(result.issues, "student_id")
                   = IF StudentIdMarker("has_date") THEN <<>>
                     ELSE <<Issue("missing_date", "student_id", "warning")>>

\* A student_id with a number and a header and without a date: one issue
C5_Witness ==
    /\ StudentIdChecked
    /\ StudentIdHasNumber
    /\ StudentIdMarker("has_header")
    /\ ~StudentIdMarker("has_date")
    /\ IssuesOfDocument(result.issues, "student_id")
           = <<Issue("missing_date", "student_id", "warning")>>

\* C5, as stated: a student_id whose id_number is empty or absent yields a
\* critical missing_id_number, and a student_id with a non-empty id_number
\* and has_header true yields no issue for that document.
C5_AsStated ==
    StudentIdChecked =>
        /\ ~StudentIdHasNumber =>
               \E i \in 1..Len(result.issues) :
                   result.issues[i]
                       = Issue("missing_id_number", "student_id", "critical")
        /\ StudentIdHasNumber /\ StudentIdMarker("has_header") =>
               IssuesOfDocument(result.issues, "student_id") = <<>>

\* The tokens of the claimed name, lowercased
NameTokens == SplitWhitespace(Lower(personal_data.name))

\* The tokens longer than 2 characters
NonTrivial(tokens) == {t \in 1..Len(tokens) : Len(tokens[t]) > 2}

\* Those of them that the text (lowercased) holds
Occurring(tokens, text) ==
    {t \in NonTrivial(tokens) : Contains(tokens[t], text)}

NameMismatchesOf(i) ==
    IssuesOfType(IssuesOfDocument(result.issues, processed_docs[i].type),
                 "name_mismatch")

\* C6, as stated: validate_personal_info emits for every document d exactly
\* one name_mismatch (warning, document = d's type) iff the number of name
\* tokens longer than 2 characters that occur in d's lowercased text is less
\* than half the number of name tokens longer than 2 characters, and none
\* otherwise.
C6_AsStated ==
    Returned("validate_personal_info") =>
        \A i \in 1..Len(processed_docs) :
            NameMismatchesOf(i) =
                IF 2 * Cardinality(Occurring(NameTokens,
                           Lower(TextOf(processed_docs[i]).v)))
                   < Cardinality(NonTrivial(NameTokens))
                THEN <<Issue("name_mismatch", processed_docs[i].type,
                             "warning")>>
                ELSE <<>>

\* A name_mismatch for a document whose text holds every token of the
\* claimed name that is longer than 2 characters
C6_Witness ==
    /\ Returned("validate_personal_info")
    /\ \E i \in 1..Len(processed_docs) :
           /\ NameMismatchesOf(i) # <<>>
           /\ Occurring(NameTokens, Lower(TextOf(processed_docs[i]).v))
                  = NonTrivial(NameTokens)

\* The names of exactly two documents are extracted
TwoNames ==
    /\ Returned("validate_cross_document_consistency")
    /\ Len(processed_docs) >= 2
    /\ Len(NamesByDoc(processed_docs)) = 2

FirstName == Lower(NamesByDoc(processed_docs)[1].name)
SecondName == Lower(NamesByDoc(processed_docs)[2].name)

\* C7: with exactly two name-yielding documents,
\* validate_cross_document_consistency emits no name_inconsistency when the
\* ratio of the two names, lowercased, is at least 0.7, as it is for 'John
\* Smith' and 'Jon Smyth', and exactly one, critical and listing the two
\* document types, when the ratio is below 0.7, as it is for 'John Smith'
\* and 'Maria Garcia'.
C7_NameInconsistency ==
    TwoNames =>
        /\ IssuesOfType(result.issues, "name_inconsistency") =
               IF TooDifferent(FirstName, SecondName)
               THEN <<NameInconsistency(NamesByDoc(processed_docs)[1].type,
                                        NamesByDoc(processed_docs)[2].type)>>
               ELSE <<>>
        /\ {FirstName, SecondName} = {"john smith", "jon smyth"} =>
               IssuesOfType(result.issues, "name_inconsistency") = <<>>
        /\ {FirstName, SecondName} = {"john smith", "maria garcia"} =>
               Len(IssuesOfType(result.issues, "name_inconsistency")) = 1

\* 'John Smith' against 'Maria Garcia': one name_inconsistency
C7_Witness ==
    /\ TwoNames
    /\ FirstName = "john smith"
    /\ SecondName = "maria garcia"
    /\ Len(IssuesOfType(result.issues, "name_inconsistency")) = 1

\* 'John Smith' against 'Jon Smyth': no name_inconsistency
C7_WitnessSimilar ==
    /\ TwoNames
    /\ {FirstName, SecondName} = {"john smith", "jon smyth"}
    /\ IssuesOfType(result.issues, "name_inconsistency") = <<>>

\* The date strings of the text of document i, as extracted
DateStringsOf(i) == ExtractDates(TextOf(processed_docs[i]).v)

\* Those of them that one of the six formats parses to a day after today
FutureStringsOf(i) ==
    {d \in 1..Len(DateStringsOf(i)) :
        /\ ParseDateString(DateStringsOf(i)[d]) # NoDate
        /\ DateAfter(ParseDateString(DateStringsOf(i)[d]), now)}

FutureDatesOf(i) ==
    IssuesOfType(IssuesOfDocument(result.issues, processed_docs[i].type),
                 "future_date")

CrossChecked ==
    /\ Returned("validate_cross_document_consistency")
    /\ Len(processed_docs) >= 2

\* C8, as the code has it: over two or more documents of which at least two
\* yield date strings, every document gets one critical future_date issue
\* for each of its date strings that parses (under one of the six numeric
\* formats) to a day after today, and a document with no such date string
\* gets none; when fewer than two documents yield date strings no document
\* gets any.
C8_FutureDates ==
    CrossChecked =>
        \A i \in 1..Len(processed_docs) :
            /\ Len(FutureDatesOf(i)) =
                   IF Len(DatesByDoc(processed_docs)) >= 2
                   THEN Cardinality(FutureStringsOf(i))
                   ELSE 0
            /\ \A k \in 1..Len(FutureDatesOf(i)) :
                   FutureDatesOf(i)[k].severity = "critical"

\* Two documents with dates: one date after today, reported, the others not
C8_Witness ==
    /\ CrossChecked
    /\ \E i, j \in 1..Len(processed_docs) :
           /\ Len(FutureDatesOf(i)) = 1
           /\ Len(DateStringsOf(i)) = 2
           /\ DateStringsOf(j) # <<>>
           /\ FutureDatesOf(j) = <<>>

\* C8, as stated: over two or more documents, a document whose text holds a
\* date after today yields a critical future_date issue for that document,
\* and a document whose dates are all in the past yields none.  (The dates
\* of a text are taken to be the strings the code itself extracts and
\* parses.)
C8_AsStated ==
    CrossChecked =>
        \A i \in 1..Len(processed_docs) :
            IF FutureStringsOf(i) # {}
            THEN HasSeverity(FutureDatesOf(i), "critical")
            ELSE FutureDatesOf(i) = <<>>

\* C9, as stated: validate_documents returns a report (it does not raise)
\* whichever of text, entities, metadata, format_markers and the
\* type-specific metadata values of a document are absent, empty or None.
C9_NeverRaises == called = "validate_documents" => ~result.raised

\* validate_documents raises on a document map whose texts are all strings:
\* a student_record whose graduation_season is None, and a claimed season
C9_Witness ==
    /\ called = "validate_documents"
    /\ result.raised
    /\ ~SomeTextIsNone(processed_docs)

\* validate_documents raises on an unreadable document
C9_WitnessText ==
    /\ called = "validate_documents"
    /\ result.raised
    /\ Len(processed_docs) = 1
    /\ processed_docs[1].doc = Unreadable

\* Every personal field but the name is empty
NameOnly ==
    \A field \in {"dob", "citizenship", "address", "gender"} :
        personal_data[field] = ""

\* Empty personal fields raise no issue: with the fields other than the name
\* empty, every issue of validate_personal_info is a name_mismatch, and with
\* an empty name none is.
C10_PersonalFieldsSkipped ==
    Returned("validate_personal_info") =>
        /\ NameOnly =>
               IssuesOfType(result.issues, "name_mismatch") = result.issues
        /\ personal_data.name = "" =>
               IssuesOfType(result.issues, "name_mismatch") = <<>>

\* Empty academic fields raise no issue
C10_AcademicFieldsSkipped ==
    Returned("validate_academic_info") /\ academic_data = NoAcademicData
        => result.issues = <<>>

\* A claim with only a name and one document whose text holds the tokens of
\* the name: Passed
C10_NameOnlyPasses ==
    /\ Returned("validate_personal_info")
    /\ NameOnly
    /\ personal_data.name # ""
    /\ Len(processed_docs) = 1
    /\ \A t \in 1..Len(NameTokens) :
           Contains(NameTokens[t], Lower(TextOf(processed_docs[1]).v))
    => result.status = "Passed"

\* C10, as stated: an empty claim field raises no issue (with every personal
\* field other than the name empty and every academic field empty,
\* validate_personal_info and validate_academic_info emit no issue for those
\* fields, and with an empty name no name_mismatch), and a claim with only a
\* name and one document that holds the name's tokens is Passed.
C10_AsStated ==
    /\ C10_PersonalFieldsSkipped
    /\ C10_AcademicFieldsSkipped
    /\ C10_NameOnlyPasses

\* A name-only claim and one document that holds every token of the name,
\* with a name_mismatch and status Warning
C10_Witness ==
    /\ Returned("validate_personal_info")
    /\ NameOnly
    /\ personal_data.name # ""
    /\ Len(processed_docs) = 1
    /\ \A t \in 1..Len(NameTokens) :
           Contains(NameTokens[t], Lower(TextOf(processed_docs[1]).v))
    /\ result.status = "Warning"

\* The days on which a run of validate_documents is compared with the run
\* that was made on the day `now`
RunDays == {Yesterday, Today, <<2026, 11, 5>>}

\* The report a run on the given day returns for the arguments of this run
RunOn(day) ==
    validate_documents(processed_docs, personal_data, academic_data, day)

\* The issues of the list other than those of the type
IssuesNotOfType(issues, type) ==
    SelectSeq(issues, LAMBDA issue : issue.type # type)

\* The two runs agree on everything but the future_date issues, and the
\* later of the two reports no future_date issue the earlier does not
SameButForTheClock(earlier, later) ==
    LET Cross(report) == report.cross_document_consistency.issues
        Future(report, document) ==
            Len(IssuesOfDocument(IssuesOfType(Cross(report), "future_date"),
                                 document))
    IN  /\ earlier.raised = later.raised
        /\ ~earlier.raised =>
              /\ earlier.personal_validation = later.personal_validation
              /\ earlier.academic_validation = later.academic_validation
              /\ earlier.document_authenticity = later.document_authenticity
              /\ IssuesNotOfType(Cross(earlier), "future_date")
                     = IssuesNotOfType(Cross(later), "future_date")
              /\ \A i \in 1..Len(processed_docs) :
                     Future(later, processed_docs[i].type)
                         <= Future(earlier, processed_docs[i].type)

CriticalTypes ==
    {"university_mismatch", "missing_id_number", "missing_courses",
     "missing_grades", "name_inconsistency", "future_date"}

\* Every issue of the list is a warning, or a critical issue of one of the
\* six critical types
SeveritiesAsTabled(issues) ==
    \A i \in 1..Len(issues) :
        /\ issues[i].severity \in {"critical", "warning"}
        /\ issues[i].severity = "critical" => issues[i].type \in CriticalTypes

\* C12: every issue of every report of validate_documents, and of every
\* result of a category validator, has severity 'critical' or 'warning'; it
\* is critical only if its type is university_mismatch, missing_id_number,
\* missing_courses, missing_grades, name_inconsistency or future_date; the
\* status of the personal category is therefore never Failed.
C12_Severities ==
    /\ called \in CategoryValidators /\ ~result.raised
          => SeveritiesAsTabled(result.issues)
    /\ Returned("validate_personal_info") => result.status # "Failed"
    /\ Returned("validate_documents")
          => /\ SeveritiesAsTabled(AllIssues(result))
             /\ result.personal_validation.status # "Failed"

\* A report with personal issues, hence personal status Warning, next to a
\* critical issue of another category
C12_Witness ==
    /\ Returned("validate_documents")
    /\ Len(result.personal_validation.issues) >= 2
    /\ result.personal_validation.status = "Warning"
    /\ HasSeverity(AllIssues(result), "critical")
    /\ HasSeverity(result.academic_validation.issues, "warning")
    /\ result.overall_status = "Failed"

\* The result of the named category validator called on its own on the
\* arguments of this run
Alone(category) ==
    CASE category = "personal_validation" ->
             validate_personal_info(processed_docs, personal_data)
      [] category = "academic_validation" ->
             validate_academic_info(processed_docs, academic_data)
      [] category = "document_authenticity" ->
             validate_document_authenticity(processed_docs)
      [] category = "cross_document_consistency" ->
             validate_cross_document_consistency(processed_docs, now)

IsFallback(report, cause) ==
    /\ ~report.raised
    /\ report.overall_status = "Warning"
    /\ report.personal_validation.issues
           = <<Issue("ai_validation_failed", "all", "warning"),
               Issue(cause, "all", "warning")>>
    /\ \A c \in 2..4 : report[Categories[c]].issues = <<>>

\* What validate_with_ai returns for the arguments of this run with the
\* given model and response
WithAI(model, response) ==
    validate_with_ai(processed_docs, personal_data, academic_data,
                     model, response)

\* C14: validate_with_ai never raises; when the model is unavailable it
\* returns the fallback report with the cause api_key_missing, when the call
\* of the model raises the one with ai_validation_error, when the response
\* holds no JSON the one with ai_parsing_error, and when the response holds
\* JSON that cannot be read as a report a fallback report with one of the
\* three causes.
C14_NeverRaises ==
    called = "validate_with_ai" =>
        /\ ~result.raised
        /\ \A response \in AiResponses :
              /\ IsFallback(WithAI(None, response), "api_key_missing")
              /\ ~WithAI(Val("gemini-pro"), response).raised
              /\ response.raises =>
                    IsFallback(WithAI(Val("gemini-pro"), response),
                               "ai_validation_error")
              /\ ~response.raises /\ response.text.json \in {"absent", "invalid"}
                    => IsFallback(WithAI(Val("gemini-pro"), response),
                                  "ai_parsing_error")
              /\ ~response.raises /\ response.text.json = "malformed"
                    => \E cause \in {"api_key_missing", "ai_validation_error",
                                     "ai_parsing_error"} :
                           IsFallback(WithAI(Val("gemini-pro"), response),
                                      cause)

\* A call that returned the fallback report of a model call that raised
C14_Witness ==
    /\ Returned("validate_with_ai")
    /\ IsFallback(result, "ai_validation_error")

\* C15, as stated: in every report that comes from
\* generate_fallback_validation, each category's status is Failed iff the
\* category holds a critical issue, else Warning iff it holds any issue,
\* else Passed.
C15_FallbackObeysStatusRule ==
    /\ Returned("validate_with_ai")
    /\ IssuesOfType(result.personal_validation.issues, "ai_validation_failed")
           # <<>>
    => \A c \in 1..4 : StatusRule(result[Categories[c]])

\* A fallback report whose academic category has status Warning and no issue
C15_Witness ==
    /\ Returned("validate_with_ai")
    /\ IsFallback(result, "api_key_missing")
    /\ result.academic_validation.issues = <<>>
    /\ result.academic_validation.status = "Warning"

\* The issue types of the authenticity table
AuthenticityTypes ==
    {"missing_header", "missing_id_number", "missing_courses",
     "missing_grades", "missing_letterhead", "missing_status",
     "missing_signature", "missing_date"}

\* The table asks for an issue of the type for the i-th document
TableAsksFor(i, type) ==
    LET doc_type == processed_docs[i].type
        metadata == MetadataOf(processed_docs[i].doc)
        NoMarker(marker) == MarkerMissing(FormatMarkersOf(metadata), marker)
    IN  CASE type = "missing_header" ->
                 /\ doc_type \in {"student_id", "transcript", "union_letter"}
                 /\ NoMarker("has_header")
          [] type = "missing_id_number" ->
                 doc_type = "student_id" /\ Falsy(MetaGet(metadata, "id_number"))
          [] type = "missing_courses" ->
                 doc_type = "transcript"
                 /\ FalsyList(MetaGet(metadata, "courses"))
          [] type = "missing_grades" ->
                 doc_type = "transcript" /\ FalsyList(MetaGet(metadata, "grades"))
          [] type = "missing_letterhead" ->
                 doc_type = "student_record" /\ NoMarker("has_letterhead")
          [] type = "missing_status" ->
                 doc_type = "student_record"
                 /\ Falsy(MetaGet(metadata, "status"))
          [] type = "missing_signature" ->
                 doc_type = "union_letter"
                 /\ FalsyFlag(MetaGet(metadata, "has_signature"))
          [] type = "missing_date" -> NoMarker("has_date")

\* The issues are those the table asks for, one of each type for each
\* document, with the severity of the table
IssuesOfTheTable(issues) ==
    /\ \A k \in 1..Len(issues) :
          /\ issues[k].type \in AuthenticityTypes
          /\ \E i \in 1..Len(processed_docs) :
                 issues[k].document = processed_docs[i].type
          /\ issues[k].severity =
                 IF issues[k].type \in CriticalTypes THEN "critical"
                 ELSE "warning"
    /\ \A i \in 1..Len(processed_docs) : \A type \in AuthenticityTypes :
          Len(IssuesOfType(IssuesOfDocument(issues, processed_docs[i].type),
                           type))
              = IF TableAsksFor(i, type) THEN 1 ELSE 0

RecordValue(field) ==
    MetaGet(MetadataOf(DocOfType(processed_docs, "student_record")), field)

\* The issue type the graduation field ("graduation_year" or
\* "graduation_season") calls for, or "" when it calls for none
GraduationIssueType(field) ==
    IF academic_data[field] = "" \/ ~HasDoc(processed_docs, "student_record")
    THEN ""
    ELSE IF Falsy(RecordValue(field)) THEN field \o "_not_found"
    ELSE IF field = "graduation_year"
            /\ academic_data[field] # RecordValue(field).v
    THEN field \o "_mismatch"
    ELSE IF field = "graduation_season"
            /\ Lower(academic_data[field]) # Lower(RecordValue(field).v)
    THEN field \o "_mismatch"
    ELSE ""

\* The issues of the graduation field are the one warning it calls for
GraduationIssuesAsStated(issues, field) ==
    IssuesOfType(issues, field \o "_not_found")
        \o IssuesOfType(issues, field \o "_mismatch")
    = IF GraduationIssueType(field) = "" THEN <<>>
      ELSE <<ClaimIssue(GraduationIssueType(field), "warning")>>

\* C17, as stated: validate_academic_info checks the graduation year and the
\* graduation season only with a student_record present and a non-empty
\* claimed value; it then returns exactly one warning <field>_not_found when
\* the metadata value is absent, empty or None, exactly one warning
\* <field>_mismatch when the value differs from the claim (the season up to
\* case), and no issue of the field when they are equal; without a
\* student_record it returns no issue of either field.
C17_AsStated ==
    called = "validate_academic_info" =>
        /\ ~result.raised
        /\ GraduationIssuesAsStated(result.issues, "graduation_year")
        /\ GraduationIssuesAsStated(result.issues, "graduation_season")

\* A claim of a season alone and a student_record whose graduation_season
\* is None: the call raises
C17_Witness ==
    /\ called = "validate_academic_info"
    /\ academic_data.graduation_season # ""
    /\ academic_data.graduation_year = ""
    /\ HasDoc(processed_docs, "student_record")
    /\ IsNone(RecordValue("graduation_season"))
    /\ result.raised

\* The date a claimed date of birth stands for: 'YYYY-MM-DD' or
\* 'DD/MM/YYYY' with numbers of one or more digits that name a day of the
\* calendar, or NoDate
ClaimedDob == ParseDob(personal_data.dob)

\* The six renderings of the claimed date of birth
Renderings ==
    LET Two(n) == IF n < 10 THEN "0" \o ToString(n) ELSE ToString(n)
        y == ToString(ClaimedDob[1])
        m == Two(ClaimedDob[2])
        d == Two(ClaimedDob[3])
        B == MonthNames[ClaimedDob[2]]
    IN  { d \o "/" \o m \o "/" \o y, d \o "-" \o m \o "-" \o y,
          y \o "-" \o m \o "-" \o d, y \o "/" \o m \o "/" \o d,
          d \o " " \o B \o " " \o y, B \o " " \o d \o ", " \o y }

\* Some document's text holds the string, as it is written
OccursLiterally(string) ==
    \E i \in 1..Len(processed_docs) :
        Contains(string, TextOf(processed_docs[i]).v)

\* C18: when validate_personal_info is called with a date of birth that
\* parses as YYYY-MM-DD or DD/MM/YYYY, it returns exactly one dob_mismatch
\* (a warning that names no document) if none of the six renderings of the
\* date occurs literally in the text of a document, also for an empty
\* document map, and no dob_mismatch if one does; with a date of birth that
\* parses under neither format, or none, it returns no dob_mismatch and
\* does not raise.
C18_DobMismatch ==
    called = "validate_personal_info" =>
        /\ ~result.raised
        /\ IssuesOfType(result.issues, "dob_mismatch")
               = IF /\ personal_data.dob # ""
                    /\ ClaimedDob # NoDate
                    /\ \A r \in Renderings : ~OccursLiterally(r)
                 THEN <<ClaimIssue("dob_mismatch", "warning")>>
                 ELSE <<>>

\* A date of birth given as DD/MM/YYYY and found as '01 February 2003'
C18_WitnessFound ==
    /\ Returned("validate_personal_info")
    /\ personal_data.dob = "01/02/2003"
    /\ OccursLiterally("01 February 2003")
    /\ ~OccursLiterally("01/02/2003")
    /\ result.issues = <<>>

\* A date of birth whose month is written in lower case in the only
\* document: the rendering does not occur literally
C18_Witness ==
    /\ Returned("validate_personal_info")
    /\ personal_data.dob = "2003-2-1"
    /\ Len(processed_docs) = 1
    /\ OccursLiterally("february 01, 2003")
    /\ result.issues = <<ClaimIssue("dob_mismatch", "warning")>>

\* A date of birth that names no day of the calendar, next to documents
C18_WitnessUnparsed ==
    /\ Returned("validate_personal_info")
    /\ personal_data.dob = "31/02/2003"
    /\ processed_docs # <<>>
    /\ result.issues = <<>>

\* The parts of the claimed address, in lower case: what stands between its
\* commas and line breaks, without the blanks around it
AddressParts ==
    LET parts == SplitOn(Lower(personal_data.address), ",\n", "")
    IN  [p \in 1..Len(parts) |-> Strip(parts[p])]

\* The parts of the claimed address that count as occurring in the i-th
\* document: those of more than 3 characters that its lowercased text holds
PartsOccurring(i) ==
    {p \in 1..Len(AddressParts) :
        /\ Len(AddressParts[p]) > 3
        /\ Contains(AddressParts[p], Lower(TextOf(processed_docs[i]).v))}

\* The claimed field is found in some document
FieldFound(field) ==
    \E i \in 1..Len(processed_docs) :
        IF field = "address"
        THEN 2 * Cardinality(PartsOccurring(i)) >= Len(AddressParts)
        ELSE Contains(Lower(personal_data[field]),
                      Lower(TextOf(processed_docs[i]).v))

\* C19: when validate_personal_info returns, for each of citizenship,
\* address and gender it holds one '<field>_mismatch' (a warning that names
\* no document) if the field is provided and found in no document, and none
\* otherwise; citizenship and gender are found when their lowercased value
\* is a substring of the lowercased text of a document, and the address
\* when, in one document, at least half of its comma- or newline-separated
\* parts occur, parts of 3 characters or fewer never counting as occurring.
C19_FieldMismatch ==
    Returned("validate_personal_info") =>
        \A field \in {"citizenship", "address", "gender"} :
            IssuesOfType(result.issues, field \o "_mismatch")
                = IF personal_data[field] # "" /\ ~FieldFound(field)
                  THEN <<ClaimIssue(field \o "_mismatch", "warning")>>
                  ELSE <<>>

\* An address of four parts and two documents that hold one part each:
\* address_mismatch, though two of the four parts occur in the documents
C19_Witness ==
    /\ Returned("validate_personal_info")
    /\ Len(AddressParts) = 4
    /\ Len(processed_docs) = 2
    /\ PartsOccurring(1) = {1}
    /\ PartsOccurring(2) = {2}
    /\ result.issues = <<ClaimIssue("address_mismatch", "warning")>>

\* An address of short parts only, 'NYC, USA', and a document that holds
\* 'nyc': address_mismatch; and the gender 'Male' found within 'female'
C19_WitnessShortParts ==
    /\ Returned("validate_personal_info")
    /\ personal_data.address = "NYC, USA"
    /\ \E i \in 1..Len(processed_docs) :
           Contains("nyc", Lower(TextOf(processed_docs[i]).v))
    /\ result.issues = <<ClaimIssue("address_mismatch", "warning")>>

C19_WitnessSubstring ==
    /\ Returned("validate_personal_info")
    /\ personal_data.gender = "Male"
    /\ personal_data.name = ""
    /\ Len(processed_docs) = 1
    /\ Contains("female", TextOf(processed_docs[1]).v)
    /\ result.issues = <<>>

\* The synonyms of the level keys that the claimed degree level contains
ClaimedSynonyms ==
    LET Of(key) == {DegreeVariants(key)[v] : v \in 1..Len(DegreeVariants(key))}
    IN  UNION {Of(key) : key \in {k \in {"bachelor", "master", "doctorate",
                                         "associate"} :
                              Contains(k, Lower(academic_data.degree_level))}}

\* C20: when validate_academic_info returns for a claim with a degree
\* level, it holds exactly one warning degree_level_mismatch if no synonym
\* of a level key contained in the claimed level is a substring of the
\* lowercased text of a document, and none if one is; a level without
\* synonyms (certificate, diploma, other) thus gets the warning whatever
\* the documents.
C20_DegreeLevelMismatch ==
    Returned("validate_academic_info") /\ academic_data.degree_level # "" =>
        /\ IssuesOfType(result.issues, "degree_level_mismatch")
               = IF \E s \in ClaimedSynonyms : \E i \in 1..Len(processed_docs) :
                        Contains(s, Lower(TextOf(processed_docs[i]).v))
                 THEN <<>>
                 ELSE <<ClaimIssue("degree_level_mismatch", "warning")>>
        /\ Lower(academic_data.degree_level) \in {"certificate", "diploma",
                                                  "other"}
              => IssuesOfType(result.issues, "degree_level_mismatch") # <<>>

\* The level 'Diploma' claimed against a document whose text holds the word
\* 'Diploma': degree_level_mismatch
C20_Witness ==
    /\ Returned("validate_academic_info")
    /\ academic_data.degree_level = "Diploma"
    /\ \E i \in 1..Len(processed_docs) :
           Contains("Diploma", TextOf(processed_docs[i]).v)
    /\ result.issues = <<ClaimIssue("degree_level_mismatch", "warning")>>

\* The level 'Master' found through the synonym 'ma' within 'diploma', and
\* 'Bachelor' through 'b.sc'
C20_WitnessSynonym ==
    /\ Returned("validate_academic_info")
    /\ academic_data.degree_level \in {"Master", "Bachelor"}
    /\ Len(processed_docs) = 1
    /\ \/ academic_data.degree_level = "Master"
          /\ TextOf(processed_docs[1]).v = "Diploma Supplement"
       \/ academic_data.degree_level = "Bachelor"
          /\ TextOf(processed_docs[1]).v = "B.Sc. in physics"
    /\ result.issues = <<>>

\* The text of the transcript, in lower case
TranscriptText ==
    Lower(Get(DocOfType(processed_docs, "transcript").text, "").v)

\* The transcript's text holds a grade token: one of the letters a-d and f
\* (a sign after it belongs to the token), or the word pass or fail, in
\* either case and anywhere in the text
TranscriptHoldsGradeToken ==
    \E token \in {"a", "b", "c", "d", "f", "pass", "fail"} :
        Contains(token, TranscriptText)

\* C21: when validate_academic_info returns, it holds one warning
\* grade_not_found if a grade is claimed, a transcript is present and the
\* transcript's text holds no grade token, and no grade_not_found
\* otherwise, whatever the claimed grade is: the claimed grade is not
\* compared with the grades of the transcript.
C21_GradeNotFound ==
    Returned("validate_academic_info") =>
        IssuesOfType(result.issues, "grade_not_found")
            = IF /\ academic_data.grade # ""
                 /\ HasDoc(processed_docs, "transcript")
                 /\ ~TranscriptHoldsGradeToken
              THEN <<ClaimIssue("grade_not_found", "warning")>>
              ELSE <<>>

\* The grade B+ claimed against a transcript that holds no B: no issue
C21_Witness ==
    /\ Returned("validate_academic_info")
    /\ academic_data.grade = "B+"
    /\ HasDoc(processed_docs, "transcript")
    /\ ~Contains("b", TranscriptText)
    /\ TranscriptHoldsGradeToken
    /\ result.issues = <<>>

\* A claimed grade and a transcript without a letter a-d or f
C21_WitnessNotFound ==
    /\ Returned("validate_academic_info")
    /\ academic_data.grade = "A"
    /\ HasDoc(processed_docs, "transcript")
    /\ TranscriptText = "398 units"
    /\ result.issues = <<ClaimIssue("grade_not_found", "warning")>>


\* The name-yielding documents, in the order of the document map
NamedDocs == NamesByDoc(processed_docs)

\* The name-yielding documents after the first whose name, lowercased, has
\* a ratio below 0.7 to the name of the first, lowercased
FarFromReference ==
    SelectSeq(Tail(NamedDocs),
              LAMBDA named : TooDifferent(Lower(NamedDocs[1].name),
                                          Lower(named.name)))

\* C22: validate_cross_document_consistency compares the name of every
\* name-yielding document after the first with the name of the first
\* name-yielding document only: its name_inconsistency issues are, in
\* order, one per later name-yielding document whose name has a ratio below
\* 0.7 to that reference, each listing [reference type, that type]; a
\* document that yields no name is in none of them, and no issue lists two
\* documents neither of which is the reference.
C22_ReferenceOnly ==
    Returned("validate_cross_document_consistency") =>
        /\ IssuesOfType(result.issues, "name_inconsistency") =
               IF Len(NamedDocs) >= 2
               THEN [k \in 1..Len(FarFromReference) |->
                        NameInconsistency(NamedDocs[1].type,
                                          FarFromReference[k].type)]
               ELSE <<>>
        /\ \A k \in 1..Len(result.issues) :
               result.issues[k].type = "name_inconsistency" =>
                   /\ result.issues[k].documents[1] = NamedDocs[1].type
                   /\ \E n \in 2..Len(NamedDocs) :
                          result.issues[k].documents[2] = NamedDocs[n].type

\* Three name-yielding documents, 'John Smith', 'Jon Smyth' and 'Maria
\* Garcia' in this order: the second and the third are too different from
\* each other, and the only issue is the one between the first and the third
C22_Witness ==
    /\ Returned("validate_cross_document_consistency")
    /\ Len(NamedDocs) = 3
    /\ Lower(NamedDocs[1].name) = "john smith"
    /\ Lower(NamedDocs[2].name) = "jon smyth"
    /\ Lower(NamedDocs[3].name) = "maria garcia"
    /\ TooDifferent(Lower(NamedDocs[2].name), Lower(NamedDocs[3].name))
    /\ IssuesOfType(result.issues, "name_inconsistency")
           = <<NameInconsistency(NamedDocs[1].type, NamedDocs[3].type)>>

\* A document without a name between two name-yielding documents: it is in
\* no issue
C22_WitnessUnnamed ==
    /\ Returned("validate_cross_document_consistency")
    /\ Len(processed_docs) = 3
    /\ Len(NamedDocs) = 2
    /\ ~NameOfDoc(processed_docs[2].doc).found
    /\ Len(IssuesOfType(result.issues, "name_inconsistency")) = 1


\* The documents that yield date strings, in the order of the document map
DatedDocs == DatesByDoc(processed_docs)

\* One critical future_date issue of document entry.type for each of its
\* date strings, in order, that a format parses to a day after today
FutureOccurrences(entry) ==
    LET Parsed(d) == ParseDateString(entry.dates[d])
    IN  Concat([d \in 1..Len(entry.dates) |->
            IF Parsed(d) # NoDate /\ DateAfter(Parsed(d), now)
            THEN <<Issue("future_date", entry.type, "critical")>>
            ELSE <<>>])

\* C23: validate_cross_document_consistency emits no future_date issue when
\* fewer than two documents yield date strings, whatever the dates; when two
\* or more do, it emits one critical future_date issue per extracted date
\* string that parses to a day after today, a repeated date once per
\* occurrence, and none for a string that no format parses; and a string
\* that no format parses raises nothing.
C23_FutureDateCheck ==
    /\ called = "validate_cross_document_consistency"
       /\ (\A i \in 1..Len(processed_docs) :
              ~IsNone(processed_docs[i].doc.text))
       => ~result.raised
    /\ Returned("validate_cross_document_consistency") =>
           IssuesOfType(result.issues, "future_date") =
               IF Len(DatedDocs) >= 2
               THEN Concat([i \in 1..Len(DatedDocs) |->
                               FutureOccurrences(DatedDocs[i])])
               ELSE <<>>

\* A document with the same date after today twice and a document with a
\* string that no format parses: two issues for the first, none for the
\* second
C23_Witness ==
    /\ Returned("validate_cross_document_consistency")
    /\ Len(DatedDocs) = 2
    /\ DatedDocs[1].dates = <<"15/01/2031", "15/01/2031">>
    /\ DatedDocs[2].dates = <<"31/02/2031">>
    /\ result.issues
           = << Issue("future_date", DatedDocs[1].type, "critical"),
                Issue("future_date", DatedDocs[1].type, "critical") >>

\* Two documents of which only one yields date strings, and these are after
\* today: no issue
C23_WitnessOneDated ==
    /\ Returned("validate_cross_document_consistency")
    /\ Len(processed_docs) = 2
    /\ Len(DatedDocs) = 1
    /\ DatedDocs[1].dates = <<"15/01/2031", "15/01/2031">>
    /\ IssuesOfType(result.issues, "future_date") = <<>>


\* The matches in text of the first of the three date patterns, in the
\* order DD/MM/YYYY, YYYY/MM/DD, DD Month YYYY, that has any
FirstPatternMatches(text) ==
    LET Of(patterns) ==
            IF patterns = {} THEN <<>>
            ELSE FindAllFrom(text, 1, Least(patterns))
    IN  Of({p \in 1..3 : FindAllFrom(text, 1, p) # <<>>})

\* The future_date issues document i gets when the date strings recorded
\* for it are dates
FutureDatesFrom(i, dates) ==
    IF Len(DatedDocs) >= 2
    THEN FutureOccurrences([type |-> processed_docs[i].type,
                            dates |-> dates])
    ELSE <<>>

\* C24: for every document, validate_cross_document_consistency records the
\* matches of the first of the three patterns that matches anywhere in the
\* text, and no match of a later pattern: the documents that yield dates are
\* those whose text some pattern matches, and every document gets the
\* future_date issues of the matches of its first matching pattern only.
C24_FirstPatternOnly ==
    Returned("validate_cross_document_consistency") =>
        /\ [k \in 1..Len(DatedDocs) |-> DatedDocs[k].type]
               = [k \in 1..Len(SelectSeq(processed_docs, LAMBDA entry :
                        FirstPatternMatches(TextOf(entry).v) # <<>>)) |->
                     SelectSeq(processed_docs, LAMBDA entry :
                        FirstPatternMatches(TextOf(entry).v) # <<>>)[k].type]
        /\ \A i \in 1..Len(processed_docs) :
               FutureDatesOf(i) =
                   FutureDatesFrom(i,
                       FirstPatternMatches(TextOf(processed_docs[i]).v))

\* A text with a day after today in each of the three patterns, next to a
\* document with a date: one future_date issue, for the match of the first
\* pattern
C24_Witness ==
    /\ Returned("validate_cross_document_consistency")
    /\ Len(DatedDocs) = 2
    /\ \E i \in 1..Len(processed_docs) :
           /\ TextOf(processed_docs[i]).v
                  = "2031/1/5, 16-01-2031, 17 Jan 2031"
           /\ FindAllFrom(TextOf(processed_docs[i]).v, 1, 2)
                  = <<"2031/1/5">>
           /\ Len(FutureDatesOf(i)) = 1

\* A text that only the second and the third pattern match: the match of
\* the second is recorded and reported
C24_WitnessSecondPattern ==
    /\ Returned("validate_cross_document_consistency")
    /\ Len(DatedDocs) = 2
    /\ \E i \in 1..Len(processed_docs) :
           /\ FirstPatternMatches(TextOf(processed_docs[i]).v)
                  = <<"2031/1/5">>
           /\ Len(FutureDatesOf(i)) = 1

\* A date string with the month written as a name, or with a year of two
\* digits
MonthNameOrShortYear(date_str) ==
    \/ \E m \in 1..12 : Contains(SubSeq(MonthNames[m], 1, 3), date_str)
    \/ \E sep \in {"/", "-"} :
           /\ Len(SplitOn(date_str, sep, "")) = 3
           /\ Len(SplitOn(date_str, sep, "")[1]) <= 2
           /\ Len(SplitOn(date_str, sep, "")[3]) = 2

\* C26: a recorded date string with the month written as a name or with a
\* 2-digit year is parsed by none of the six formats, and a document all of
\* whose recorded date strings are such gets no future_date issue, also when
\* two or more documents yield dates and the strings denote days after
\* today.
C26_NeverParsed ==
    Returned("validate_cross_document_consistency") =>
        \A i \in 1..Len(processed_docs) :
            /\ \A d \in 1..Len(DateStringsOf(i)) :
                   MonthNameOrShortYear(DateStringsOf(i)[d]) =>
                       ParseDateString(DateStringsOf(i)[d]) = NoDate
            /\ (\A d \in 1..Len(DateStringsOf(i)) :
                    MonthNameOrShortYear(DateStringsOf(i)[d]))
                   => FutureDatesOf(i) = <<>>

\* '15 January 2031' and '5/1/31' in two documents: both yield dates, both
\* after today as written, and there is no issue
C26_Witness ==
    /\ Returned("validate_cross_document_consistency")
    /\ Len(DatedDocs) = 2
    /\ {DatedDocs[1].dates, DatedDocs[2].dates}
           = {<<"15 January 2031">>, <<"5/1/31">>}
    /\ result.issues = <<>>


\* The metadata of the union_letter and its format markers
LetterMetadata == MetadataOf(DocOfType(processed_docs, "union_letter"))
LetterMarkers == FormatMarkersOf(LetterMetadata)

\* The top-level metadata field has_signature is true
LetterSigned ==
    /\ "has_signature" \in DOMAIN LetterMetadata.v
    /\ LetterMetadata.v["has_signature"] = Val(TRUE)

\* The format marker is absent or false
FlagUnset(flags, flag) ==
    flag \in DOMAIN flags.v => ~flags.v[flag]

LetterIssues(type) ==
    IssuesOfType(IssuesOfDocument(result.issues, "union_letter"), type)

\* C25: for a union_letter, validate_document_authenticity emits the warning
\* missing_signature iff the has_signature field of the document's metadata
\* is false or absent, whatever format_markers.has_signature is, and emits
\* missing_header and missing_date iff format_markers lacks has_header and
\* has_date.
C25_SignatureFromMetadata ==
    Returned("validate_document_authenticity")
    /\ HasDoc(processed_docs, "union_letter") =>
        /\ LetterIssues("missing_signature") =
               IF LetterSigned THEN <<>>
               ELSE <<Issue("missing_signature", "union_letter",
                            "warning")>>
        /\ LetterIssues("missing_header") =
               IF FlagUnset(LetterMarkers, "has_header")
               THEN <<Issue("missing_header", "union_letter", "warning")>>
               ELSE <<>>
        /\ LetterIssues("missing_date") =
               IF FlagUnset(LetterMarkers, "has_date")
               THEN <<Issue("missing_date", "union_letter", "warning")>>
               ELSE <<>>

\* format_markers.has_signature is true and the metadata has no
\* has_signature: missing_signature
C25_Witness ==
    /\ Returned("validate_document_authenticity")
    /\ HasDoc(processed_docs, "union_letter")
    /\ ~FlagUnset(LetterMarkers, "has_signature")
    /\ "has_signature" \notin DOMAIN LetterMetadata.v
    /\ LetterIssues("missing_signature") # <<>>

\* format_markers.has_signature is false and the metadata's has_signature
\* is true: no missing_signature
C25_WitnessSigned ==
    /\ Returned("validate_document_authenticity")
    /\ HasDoc(processed_docs, "union_letter")
    /\ FlagUnset(LetterMarkers, "has_signature")
    /\ LetterSigned
    /\ LetterIssues("missing_signature") = <<>>


\* The value session_state's dict holds under the key, "" when it has none
Stored(dict, key) ==
    IF key \in DOMAIN session_state[dict] THEN session_state[dict][key]
    ELSE ""

\* A form has just refused a submit
Rejected ==
    /\ called \in {"render_personal_form", "render_academic_form",
                   "render_document_upload"}
    /\ result \in {"error", "warning"}

\* What C27 says of every state of the wizard
StepsHoldTheirData ==
    /\ session_state.step \in 1..5
    /\ session_state.step \in {2, 3, 4} =>
           Stored("personal_data", "name") # ""
           /\ Stored("personal_data", "email") # ""
    /\ session_state.step \in {3, 4} =>
           Stored("academic_data", "university") # ""
           /\ Stored("academic_data", "major") # ""
    /\ session_state.step = 4 =>
           \E i \in 1..Len(session_state.documents) :
               ~IsNone(session_state.documents[i].file)

\* C27: in every state the wizard reaches, step is in 1..5, at steps 2 to 4
\* personal_data holds a non-empty name and email, at steps 3 and 4
\* academic_data holds a non-empty university and major, and at step 4 one
\* of the documents is not None; and a submit that a form rejects leaves the
\* step and the stored data as they were.
C27_WizardInvariant ==
    /\ []StepsHoldTheirData
    /\ [][Rejected' => session_state' = session_state]_vars

\* Step 4, with the data of the three forms stored
C27_Witness ==
    /\ session_state.step = 4
    /\ Len(session_state.documents) = 6
    /\ Stored("academic_data", "university") = "MIT"
    /\ Stored("personal_data", "email") = "b@x.org"

\* The documents form has refused a submit: the step is still 3
C27_WitnessRejected ==
    /\ Rejected
    /\ called = "render_document_upload"
    /\ session_state.step = 3
    /\ session_state.documents = <<>>

\* C28: between two resets the validation yields its report and the save
\* runs at most once: a run changes validation_results or the table of
\* records only at step 4 with validation_results None, it then stores a
\* report and adds at most one record; while a report is stored no run
\* replaces it or adds a record, whatever the save returned; and
\* validation_results is None before step 4.  (A run in which the
\* extraction raises stores and saves nothing.)
C28_ValidatedOnce ==
    /\ [](session_state.step \in 1..3 =>
              IsNone(session_state.validation_results))
    /\ [][/\ ~IsNone(session_state.validation_results) =>
                /\ records' = records
                /\ \/ session_state'.validation_results
                          = session_state.validation_results
                   \/ session_state' = InitialSession
          /\ IsNone(session_state.validation_results)
             /\ (records' # records
                 \/ ~IsNone(session_state'.validation_results)) =>
                /\ session_state.step = 4
                /\ called' = "save_validation_data"
                /\ ~IsNone(session_state'.validation_results)
                /\ Len(records') <= Len(records) + 1]_vars

\* The stored report is displayed again after a save that returned False:
\* there is no record
C28_Witness ==
    /\ called = "display_validation_results"
    /\ session_state.step = 4
    /\ ~IsNone(session_state.validation_results)
    /\ records = <<>>

\* C29: step 5 is entered only while personal_data holds a non-empty email;
\* from step 5 a run leads to step 5 or, by 'Start New Validation', to the
\* initial session (step 1, empty personal_data, academic_data and
\* documents, validation_results None), never to step 2, 3 or 4.
C29_HistoryStep ==
    /\ [](session_state.step = 5 => Stored("personal_data", "email") # "")
    /\ [][session_state.step = 5 =>
            \/ session_state'.step = 5
            \/ /\ called' = "Start New Validation"
               /\ session_state'.step = 1
               /\ DOMAIN session_state'.personal_data = {}
               /\ DOMAIN session_state'.academic_data = {}
               /\ Len(session_state'.documents) = 0
               /\ IsNone(session_state'.validation_results)]_vars

\* The history step, entered from step 4, has fetched a record
C29_Witness ==
    /\ session_state.step = 5
    /\ called = "get_user_validation_history"
    /\ ~IsNone(session_state.validation_results)
    /\ Len(result) = 1

\* The record save_validation_data adds for the session's data
RecordOfSession ==
    [id |-> Len(records) + 1,
     email |-> Stored("personal_data", "email"),
     name |-> Stored("personal_data", "name"),
     personal_data |-> [json |-> session_state.personal_data],
     academic_data |-> [json |-> session_state.academic_data],
     validation_results |->
         [json |-> session_state'.validation_results.v],
     status |-> session_state'.validation_results.v.overall_status,
     created_at |-> Len(records) + 1]

\* The records of the table with the session's email
RecordsOfUser ==
    SelectSeq(records,
              LAMBDA record : record.email = Stored("personal_data", "email"))

C30_WitnessFailed ==
    /\ called = "save_validation_data"
    /\ result = FALSE
    /\ records = <<>>

====
